---- MODULE Spec2Model ----
(***************************************************************************)
(* RoArm-M3 motion core: the IK entry point (ik.py), the blocking move     *)
(* (roarm_control.py), the Cartesian streaming planner (path_planner.py),  *)
(* the joint-space streaming engine (smooth_stream_direct.py), the         *)
(* Cartesian mission interpolator (archive/smooth_mission.py), the gripper *)
(* clamps (roarm_safety.py, roarm_gripper.py, circle_demo.py), and the     *)
(* feedback-driven moves: cmd_goto_xyz (roarm_simple_move.py) and          *)
(* refine_to_target (archive/roarm_fkik_uart.py) with read_feedback.       *)
(* Around the core: the vision tracker's motion loop                       *)
(* (lessons/05_vision_guided_motion/trackobject_auto.py), the mission      *)
(* controller that drives roarm_control.py as a subprocess                 *)
(* (main_controller.py), the guarded move of the sample collector          *)
(* (roarm_collect_samples_safe.py), and the planar FK/IK pairs             *)
(* (test_fk_ik_consistency.py, roarm_simple_move.py, archive/ik.py).       *)
(*                                                                         *)
(* Units.  Angles are integers in centi-radians (0.01 rad), so that every  *)
(* constant of the code (limits, default pose, gripper presets, angular    *)
(* step) is an integer.  Lengths are integers in millimetres.  A waypoint  *)
(* t = i/steps on a segment is kept as exact numerators over the common    *)
(* denominator `den` (value = num/den); floating-point rounding of the     *)
(* Python floats is not modelled.  Times are integers in milliseconds.     *)
(* The planar kinematics keeps positions in 1/KDen mm and takes its joint  *)
(* angles from rational rotations, so that FK and IK are exact.            *)
(***************************************************************************)
EXTENDS Integers, Sequences, FiniteSets, TLC

VARIABLES
    prog,              \* which script is running as this process
    pc,                \* its position
    LAST_JOINTS_5DOF,  \* the running module's warm-start global
    sent,              \* every command written to the serial port, in order
    ikLog,             \* history: every inverse_kinematics call, in order
    lm,                \* path_planner.linear_move's frame
    last_joints,       \* smooth_stream_direct.main: last_joints
    j2,                \* calculate_ik_and_stream: j2
    microsteps,        \* calculate_ik_and_stream: microsteps
    k,                 \* calculate_ik_and_stream: position in microsteps;
                       \* trackobject_auto: camera frames handled
    seg,               \* smooth_stream_direct.main: mission segments started
    args,              \* pure-function specifications: the call's inputs
    ret,               \* pure-function specifications: the call's result
    executed,          \* archive/smooth_mission.py: execute_move calls, in order
    pause,             \* milliseconds slept since the last serial write
    fb,                \* goto_xyz: current_fb; refine_to_target: fb;
                       \* trackobject_auto: the virtual position v_x, v_y
    rf,                \* the refine loop's frame
    rd,                \* read_feedback's frame
    obs,               \* history: what the feedback reads have shown so far
    runs,              \* history: every roarm_control.py subprocess, in order
    mc,                \* main_controller: run_control_command's frames
    gm,                \* roarm_collect_samples_safe: guarded_move's frame
    failed             \* history: the sends whose serial open or write raised

vars == <<prog, pc, LAST_JOINTS_5DOF, sent, ikLog, lm, last_joints, j2,
          microsteps, k, seg, args, ret, executed, pause, fb, rf, rd, obs,
          runs, mc, gm, failed>>

ctlVars == <<lm, last_joints, j2, microsteps, k, seg>>
streamVars == <<last_joints, j2, microsteps, k, seg>>
funVars == <<args, ret, executed>>
fbVars == <<fb, rf, rd, obs>>
hostVars == <<runs, mc, gm, failed>>
\* what the feedback-driven scripts never touch
coreVars == <<LAST_JOINTS_5DOF, ctlVars, executed, pause, hostVars>>

-----------------------------------------------------------------------------
(* Bounds of the model *)

\* roarm_control: number of move_to requests in one run
MaxMoves == 3
\* smooth_stream_direct: number of mission points streamed
MaxMission == 2
\* path_planner: largest `steps` argument tried (0 and 1 are the rejected ones)
MaxSteps == 3

-----------------------------------------------------------------------------
(* ik.py *)

JOINTS_USED == 5

limits_min == <<-300, -180, -40, -200, -300>>
limits_max == <<300, 180, 215, 200, 300>>

\* "no solution"
None == <<>>

Min(a, b) == IF a < b THEN a ELSE b
Max(a, b) == IF a > b THEN a ELSE b

\* a mutant of Clip: the solver's value is passed through unclamped
ClipOff(j) == j

\* np.clip(j, limits_min, limits_max)
Clip(j) == [i \in 1..JOINTS_USED |-> Min(Max(j[i], limits_min[i]), limits_max[i])]

\* a mutant of First5: the slice starts one element late
First5Shifted(sol) == SubSeq(sol, 2, 6)

\* joints_5dof[0:5] / sol[:5]
First5(sol) == SubSeq(sol, 1, 5)

\* the fallback initial guess of inverse_kinematics, and the initial value of
\* every module's LAST_JOINTS_5DOF
DefaultPose == <<0, 50, 50, 0, 0>>

\* inverse_kinematics after the solve: `result` is scipy's OptimizeResult
\* reduced to [success, x]
inverse_kinematics(result) ==
    IF ~result.success THEN None
    ELSE LET j_clamped == Clip(result.x)
         IN  <<j_clamped[1], j_clamped[2], j_clamped[3], j_clamped[4],
               j_clamped[5], 0>>

\* What least_squares may hand back in the controller runs: it either fails
\* or converges to some x, which need not respect the joint limits.
SolverX ==
    { <<2, 48, -43, 1, 0>>,
      <<-1, 52, 46, -2, 3>> }

least_squares == { [success |-> FALSE, x |-> DefaultPose] }
                 \cup { [success |-> TRUE, x |-> x] : x \in SolverX }

-----------------------------------------------------------------------------
(* Inputs of the controller runs *)

\* Cartesian targets (mm); z < 50 is move_to's "low" branch
Targets == { <<150, 0, 100>>, <<351, 0, 40>> }
ZeroVec3 == <<0, 0, 0>>
ZeroVec6 == <<0, 0, 0, 0, 0, 0>>
Rolls == {0}
\* gripper commands: G_OPEN = 0.5 rad and a value just above it
G_OPEN == 50
Grips == {G_OPEN, 54}

\* one entry of ikLog: the guess handed to inverse_kinematics, the warm-start
\* global at that moment, the target (numerators over den), what the call
\* returned, and the trajectory and waypoint it was made for
IKCall(guess, target, den, roll, sol, traj, idx) ==
    [guess |-> guess, warm |-> LAST_JOINTS_5DOF, target |-> target,
     den |-> den, roll |-> roll, sol |-> sol, traj |-> traj, idx |-> idx]

\* one entry of sent: the message's discriminator T, its numeric payload as
\* numerators over den, the IK call it follows (ik), the trajectory it
\* belongs to (traj) and its position in that trajectory (idx)
Cmd(T, p, den, g, ik, traj, idx) ==
    [T |-> T, p |-> p, den |-> den, g |-> g, ik |-> ik, traj |-> traj,
     idx |-> idx]

-----------------------------------------------------------------------------
(* roarm_control.py *)

\* a mutant of move_to: on IK failure the warm-start pose is sent instead
move_to_guess(target, r, g, result) ==
    LET initial_guess == LAST_JOINTS_5DOF
        joints_5dof == inverse_kinematics(result)
        n == Len(ikLog) + 1
        j == IF joints_5dof = None THEN initial_guess ELSE First5(joints_5dof)
    IN  /\ prog = "roarm_control"
        /\ Len(ikLog) < MaxMoves
        /\ ikLog' = Append(ikLog, IKCall(initial_guess, target, 1, r, joints_5dof, n, 1))
        /\ LAST_JOINTS_5DOF' = j
        /\ sent' = Append(sent, Cmd(102, j \o <<g>>, 1, g, n, n, 1))
        /\ pause' = 0
        /\ UNCHANGED <<prog, fbVars, hostVars, pc, ctlVars, funVars>>

\* the "SAFETY CHECK" threshold of move_to: z < 50.0 (mm)
LOW_Z == 50

\* move_to(x, y, z, r, g), with send_joints.  The z < LOW_Z branch prints a
\* warning and sleeps one second; send_joints is called on both branches.
move_to(target, r, g, result) ==
    LET initial_guess == LAST_JOINTS_5DOF
        joints_5dof == inverse_kinematics(result)
        n == Len(ikLog) + 1
    IN  /\ prog = "roarm_control"
        /\ Len(ikLog) < MaxMoves
        /\ ikLog' = Append(ikLog, IKCall(initial_guess, target, 1, r, joints_5dof, n, 1))
        /\ IF joints_5dof = None
           THEN UNCHANGED <<LAST_JOINTS_5DOF, sent, pause>>
           ELSE /\ LAST_JOINTS_5DOF' = First5(joints_5dof)
                /\ sent' = Append(sent,
                       Cmd(102, First5(joints_5dof) \o <<g>>, 1, g, n, n, 1))
                /\ pause' = 0
        /\ UNCHANGED <<prog, fbVars, hostVars, pc, ctlVars, funVars>>

MoveTo ==
    \E target \in Targets, r \in Rolls, g \in Grips, result \in least_squares :
        move_to(target, r, g, result)

-----------------------------------------------------------------------------
(* path_planner.py *)

\* time.sleep(1.5) after the T:104 move and between the two linear moves (ms)
SETTLE_DELAY == 1500
\* time.sleep(0.015) after each T:1041 command (ms)
LINEAR_DELAY == 15

\* start_xyz + step_vector * i with step_vector = (end_xyz - start_xyz) /
\* (steps - 1), as numerators over steps - 1
linear_target(start_xyz, end_xyz, steps, i) ==
    [c \in 1..3 |-> start_xyz[c] * (steps - 1) + (end_xyz[c] - start_xyz[c]) * i]

\* move_single_point_init(start) as main calls it (roll 0.0, gripper 0.0),
\* and main's early return when it reports failure
move_single_point_init(target_xyz, result) ==
    LET initial_guess == LAST_JOINTS_5DOF
        joints_5dof == inverse_kinematics(result)
        n == Len(ikLog) + 1
    IN  /\ prog = "path_planner"
        /\ pc = "main"
        /\ ikLog' = Append(ikLog,
               IKCall(initial_guess, target_xyz, 1, 0, joints_5dof, 0, 1))
        /\ IF joints_5dof = None
           THEN /\ pc' = "done"
                /\ UNCHANGED <<LAST_JOINTS_5DOF, sent, lm, pause>>
           ELSE /\ LAST_JOINTS_5DOF' = First5(joints_5dof)
                /\ sent' = Append(sent, Cmd(104, target_xyz, 1, 0, n, 0, 1))
                /\ pause' = SETTLE_DELAY
                /\ pc' = "ready"
                /\ lm' = [lm EXCEPT !.start = target_xyz]
        /\ UNCHANGED <<prog, fbVars, hostVars, streamVars, funVars>>

MoveSinglePointInit ==
    \E start \in Targets, result \in least_squares :
        move_single_point_init(start, result)

\* a mutant of linear_move: the guard is steps < 1
linear_move_lax(start_xyz, end_xyz, steps) ==
    /\ prog = "path_planner"
    /\ pc = "ready"
    /\ lm.call < 2
    /\ lm' = [call |-> lm.call + 1, start |-> start_xyz, end |-> end_xyz,
              steps |-> steps, i |-> 0]
    /\ pc' = IF steps < 1 THEN "ready" ELSE "loop"
    /\ UNCHANGED <<prog, fbVars, hostVars, LAST_JOINTS_5DOF, sent, ikLog, streamVars,
                   funVars>>

\* linear_move's entry: the steps < 2 rejection, then path_vector/step_vector
linear_move(start_xyz, end_xyz, steps) ==
    /\ prog = "path_planner"
    /\ pc = "ready"
    /\ lm.call < 2
    /\ lm' = [call |-> lm.call + 1, start |-> start_xyz, end |-> end_xyz,
              steps |-> steps, i |-> 0]
    /\ pc' = IF steps < 2 THEN "ready" ELSE "loop"
    /\ UNCHANGED <<prog, fbVars, hostVars, LAST_JOINTS_5DOF, sent, ikLog, streamVars,
                   funVars>>

\* main: linear_move(start, end, steps=num_steps), time.sleep(1.5), then
\* linear_move(end, start, steps=num_steps); start, end and num_steps are
\* main's constants, drawn here from the input sets
LinearMove ==
    \/ /\ lm.call = 0
       /\ \E end \in Targets, steps \in 0..MaxSteps :
              linear_move(lm.start, end, steps)
       /\ UNCHANGED pause
    \/ /\ lm.call = 1
       /\ pause' = pause + SETTLE_DELAY
       /\ linear_move(lm.end, lm.start, lm.steps)

\* one pass of linear_move's for loop: warm-started IK, then the T:1041 send
\* and the 15 ms sleep
linear_move_step(result) ==
    LET target_xyz == linear_target(lm.start, lm.end, lm.steps, lm.i)
        initial_guess == LAST_JOINTS_5DOF
        joints_5dof == inverse_kinematics(result)
        n == Len(ikLog) + 1
    IN  /\ prog = "path_planner"
        /\ pc = "loop"
        /\ lm.i < lm.steps
        /\ ikLog' = Append(ikLog,
               IKCall(initial_guess, target_xyz, lm.steps - 1, 0, joints_5dof,
                      lm.call, lm.i + 1))
        /\ IF joints_5dof = None
           THEN UNCHANGED <<LAST_JOINTS_5DOF, sent, pause>>
           ELSE /\ LAST_JOINTS_5DOF' = First5(joints_5dof)
                /\ sent' = Append(sent,
                       Cmd(1041, target_xyz, lm.steps - 1, 0, n, lm.call,
                           lm.i + 1))
                /\ pause' = LINEAR_DELAY
        /\ lm' = [lm EXCEPT !.i = @ + 1]
        /\ UNCHANGED <<prog, fbVars, hostVars, pc, streamVars, funVars>>

LinearMoveStep == \E result \in least_squares : linear_move_step(result)

\* one pass of linear_move's for loop in which send_command's serial.Serial
\* or write raises SerialException: send_command catches it, prints and
\* returns, so the pass goes on to its sleep and the loop to its next pass
linear_move_step_failed(result) ==
    LET target_xyz == linear_target(lm.start, lm.end, lm.steps, lm.i)
        initial_guess == LAST_JOINTS_5DOF
        joints_5dof == inverse_kinematics(result)
        n == Len(ikLog) + 1
    IN  /\ prog = "path_planner"
        /\ pc = "loop"
        /\ lm.i < lm.steps
        /\ joints_5dof # None
        /\ ikLog' = Append(ikLog,
               IKCall(initial_guess, target_xyz, lm.steps - 1, 0, joints_5dof,
                      lm.call, lm.i + 1))
        /\ LAST_JOINTS_5DOF' = First5(joints_5dof)
        /\ failed' = Append(failed,
               Cmd(1041, target_xyz, lm.steps - 1, 0, n, lm.call, lm.i + 1))
        /\ pause' = pause + LINEAR_DELAY
        /\ lm' = [lm EXCEPT !.i = @ + 1]
        /\ UNCHANGED <<prog, fbVars, runs, mc, gm, pc, sent, streamVars,
                       funVars>>

LinearMoveStepFailed ==
    \E result \in least_squares : linear_move_step_failed(result)

\* the for loop is exhausted: linear_move returns to main
LinearMoveReturn ==
    /\ prog = "path_planner"
    /\ pc = "loop"
    /\ lm.i = lm.steps
    /\ pc' = "ready"
    /\ UNCHANGED <<prog, fbVars, hostVars, pause, LAST_JOINTS_5DOF, sent, ikLog,
                   ctlVars, funVars>>

-----------------------------------------------------------------------------
(* smooth_stream_direct.py *)

\* one entry of runs: a subprocess started on ./roarm_control.py with the
\* arguments argv (after the script name), whether it was run with
\* check=True, and how it ended
Run(argv, check, out) == [argv |-> argv, check |-> check, out |-> out]

STEP_SIZE_RAD == 1
STREAM_HZ == 50
\* STREAM_DELAY = 1.0 / STREAM_HZ seconds, in milliseconds
STREAM_DELAY == 1000 \div STREAM_HZ

Abs(a) == IF a < 0 THEN -a ELSE a

\* np.max(np.abs(b - a))
MaxAbsDiff(a, b) ==
    LET d == { Abs(b[c] - a[c]) : c \in DOMAIN a }
    IN  CHOOSE m \in d : \A e \in d : e <= m

\* a mutant of interpolate_joints: the loop runs over range(steps)
interpolate_joints_from0(a, b, step_size) ==
    LET steps == (MaxAbsDiff(a, b) \div step_size) + 1
    IN  [i \in 1..steps |->
            [num |-> [c \in DOMAIN a |-> a[c] * steps + (i - 1) * (b[c] - a[c])],
             den |-> steps]]

\* a mutant of interpolate_joints: the step count of the Cartesian planner
interpolate_joints_floor(a, b, step_size) ==
    LET steps == Max(1, MaxAbsDiff(a, b) \div step_size)
    IN  [i \in 1..steps |->
            [num |-> [c \in DOMAIN a |-> a[c] * steps + i * (b[c] - a[c])],
             den |-> steps]]

\* interpolate_joints(j1, j2, step_size): waypoint i of `steps` is
\* j1 + (i/steps)(j2 - j1), kept as numerators over den = steps
interpolate_joints(a, b, step_size) ==
    LET steps == (MaxAbsDiff(a, b) \div step_size) + 1
    IN  [i \in 1..steps |->
            [num |-> [c \in DOMAIN a |-> a[c] * steps + i * (b[c] - a[c])],
             den |-> steps]]

\* main up to the mission loop: the torque_on subprocess (check=True,
\* timeout 5 s) and the serial open; either may raise, which ends the run
\* through main's except/finally.  The subprocess runs whatever
\* ./roarm_control.py the working directory holds, so its outcome is left
\* open here (this repository's roarm_control.py accepts only "move" with
\* five numbers and exits 1 on "torque_on").
StreamStartup ==
    /\ prog = "smooth_stream_direct"
    /\ \/ /\ pc = "main"
          /\ \E rc \in {"ok", "raise"} :
                 /\ pc' = IF rc = "ok" THEN "open" ELSE "finally"
                 /\ runs' = Append(runs,
                        Run(<<"torque_on">>, TRUE,
                            IF rc = "ok" THEN "ok" ELSE "nonzero"))
       \/ /\ pc = "open"
          /\ \E rc \in {"ok", "raise"} :
                 pc' = IF rc = "ok" THEN "mission" ELSE "finally"
          /\ UNCHANGED runs
    /\ UNCHANGED <<prog, fbVars, mc, gm, failed, pause, LAST_JOINTS_5DOF,
                   sent, ikLog, ctlVars, funVars>>

\* calculate_ik_and_stream(s, j1, p2) up to its streaming loop, called by
\* main with j1 = last_joints (all zeros for the first mission point); on IK
\* failure it returns j1 and main goes on to the next point
calculate_ik_and_stream(p2, result) ==
    LET j1 == last_joints
        sol == inverse_kinematics(result)
        n == Len(ikLog) + 1
    IN  /\ prog = "smooth_stream_direct"
        /\ pc = "mission"
        /\ seg < MaxMission
        /\ ikLog' = Append(ikLog,
               IKCall(LAST_JOINTS_5DOF, p2.xyz, 1, p2.r, sol, seg + 1, 1))
        /\ seg' = seg + 1
        /\ IF sol = None
           THEN UNCHANGED <<pc, LAST_JOINTS_5DOF, last_joints, j2,
                            microsteps, k>>
           ELSE /\ LAST_JOINTS_5DOF' = First5(sol)
                /\ j2' = <<sol[1], sol[2], sol[3], sol[4], sol[5], p2.g>>
                /\ microsteps' = interpolate_joints(j1, j2', STEP_SIZE_RAD)
                /\ k' = 1
                /\ pc' = "stream"
                /\ UNCHANGED last_joints
        /\ UNCHANGED <<prog, fbVars, hostVars, pause, sent, lm, funVars>>

MissionPoints == [xyz : Targets, r : Rolls, g : Grips]

CalculateIKAndStream ==
    \E p2 \in MissionPoints, result \in least_squares :
        calculate_ik_and_stream(p2, result)

\* a mutant of stream_step: the microsteps are sent last to first
stream_step_reversed ==
    LET w == Len(microsteps) + 1 - k
    IN  /\ prog = "smooth_stream_direct"
        /\ pc = "stream"
        /\ k <= Len(microsteps)
        /\ sent' = Append(sent,
               Cmd(102, microsteps[w].num, microsteps[w].den, j2[6],
                   Len(ikLog), seg, w))
        /\ k' = k + 1
        /\ pause' = STREAM_DELAY
        /\ UNCHANGED <<prog, fbVars, hostVars, pc, LAST_JOINTS_5DOF, ikLog, lm,
                       last_joints, j2, microsteps, seg, funVars>>

\* a mutant of stream_step: the STREAM_DELAY sleep is left out
stream_step_unpaced ==
    /\ prog = "smooth_stream_direct"
    /\ pc = "stream"
    /\ k <= Len(microsteps)
    /\ sent' = Append(sent,
           Cmd(102, microsteps[k].num, microsteps[k].den, j2[6], Len(ikLog),
               seg, k))
    /\ k' = k + 1
    /\ pause' = 0
    /\ UNCHANGED <<prog, fbVars, hostVars, pc, LAST_JOINTS_5DOF, ikLog, lm,
                   last_joints, j2, microsteps, seg, funVars>>

\* one pass of the streaming loop: send_t102_stream(s, j_step), then the
\* STREAM_DELAY sleep
stream_step ==
    /\ prog = "smooth_stream_direct"
    /\ pc = "stream"
    /\ k <= Len(microsteps)
    /\ sent' = Append(sent,
           Cmd(102, microsteps[k].num, microsteps[k].den, j2[6], Len(ikLog),
               seg, k))
    /\ k' = k + 1
    /\ pause' = STREAM_DELAY
    /\ UNCHANGED <<prog, fbVars, hostVars, pc, LAST_JOINTS_5DOF, ikLog, lm,
                   last_joints, j2, microsteps, seg, funVars>>

\* the loop is exhausted: calculate_ik_and_stream returns j2, which main
\* stores in last_joints
stream_return ==
    /\ prog = "smooth_stream_direct"
    /\ pc = "stream"
    /\ k > Len(microsteps)
    /\ last_joints' = j2
    /\ pc' = "mission"
    /\ UNCHANGED <<prog, fbVars, hostVars, pause, LAST_JOINTS_5DOF, sent, ikLog, lm,
                   j2, microsteps, k, seg, funVars>>

\* the mission list is exhausted (it holds at least its home point), then
\* main's finally block: the torque_off subprocess (check=False, so its
\* outcome is not looked at)
StreamFinish ==
    /\ prog = "smooth_stream_direct"
    /\ \/ /\ pc = "mission"
          /\ seg >= 1
          /\ pc' = "finally"
          /\ UNCHANGED runs
       \/ /\ pc = "finally"
          /\ pc' = "done"
          /\ \E out \in {"ok", "nonzero"} :
                 runs' = Append(runs, Run(<<"torque_off">>, FALSE, out))
    /\ UNCHANGED <<prog, fbVars, mc, gm, failed, pause, LAST_JOINTS_5DOF,
                   sent, ikLog, ctlVars, funVars>>

\* Ctrl+C while main is inside its try block: KeyboardInterrupt is raised
\* between two statements (a write that has begun is completed), neither
\* except clause catches it, and the finally block runs
StreamKeyboardInterrupt ==
    /\ prog = "smooth_stream_direct"
    /\ pc \in {"main", "open", "mission", "stream"}
    /\ pc' = "finally"
    /\ obs' = [obs EXCEPT !.stopped = TRUE]
    /\ UNCHANGED <<prog, fb, rf, rd, hostVars, pause, LAST_JOINTS_5DOF,
                   sent, ikLog, ctlVars, funVars>>

-----------------------------------------------------------------------------
(* archive/smooth_mission.py *)

STEP_SIZE_MM == 3

\* int(sqrt(n)) for a natural n
ISqrt(n) == CHOOSE r \in 0..n : r * r <= n /\ n < (r + 1) * (r + 1)

\* (x2-x1)**2 + (y2-y1)**2 + (z2-z1)**2
Dist2(p1, p2) ==
    (p2.x - p1.x) * (p2.x - p1.x) + (p2.y - p1.y) * (p2.y - p1.y)
    + (p2.z - p1.z) * (p2.z - p1.z)

\* one waypoint or mission point: x, y, z as numerators over den
Point(x, y, z, den, r, g) ==
    [x |-> x, y |-> y, z |-> z, den |-> den, r |-> r, g |-> g]

\* a mutant of interpolate_points: the step count is rounded up
interpolate_points_ceil(p1, p2, step_size) ==
    LET dist == ISqrt(Dist2(p1, p2))
        steps == Max(1, (dist + step_size - 1) \div step_size)
    IN  [i \in 1..steps |->
            Point(p1.x * steps + i * (p2.x - p1.x),
                  p1.y * steps + i * (p2.y - p1.y),
                  p1.z * steps + i * (p2.z - p1.z),
                  steps, p2.r, p1.g)]

\* interpolate_points(p1, p2, step_size); for whole-millimetre inputs
\* int(sqrt(d2) / step_size) is int(sqrt(d2)) // step_size
interpolate_points(p1, p2, step_size) ==
    LET dist == ISqrt(Dist2(p1, p2))
        steps == Max(1, dist \div step_size)
    IN  [i \in 1..steps |->
            Point(p1.x * steps + i * (p2.x - p1.x),
                  p1.y * steps + i * (p2.y - p1.y),
                  p1.z * steps + i * (p2.z - p1.z),
                  steps, p2.r, p1.g)]

\* the point execute_move passes to roarm_control.py move
MovePoint(p) == Point(p.x, p.y, p.z, p.den, p.r, p.g)

\* a mutant of interpolate_and_execute: no gripper-only shortcut
interpolate_and_execute_always(p1, p2) ==
    /\ prog = "smooth_mission"
    /\ pc = "main"
    /\ LET micro_steps == interpolate_points(p1, p2, STEP_SIZE_MM)
       IN  executed' = executed
                       \o [i \in 1..Len(micro_steps) |->
                              MovePoint(micro_steps[i])]
                       \o <<MovePoint(p2)>>
    /\ pc' = "executed"
    /\ UNCHANGED <<prog, fbVars, hostVars, pause, LAST_JOINTS_5DOF, sent, ikLog,
                   ctlVars, args, ret>>

\* interpolate_and_execute(p1, p2): the execute_move calls it makes
interpolate_and_execute(p1, p2) ==
    /\ prog = "smooth_mission"
    /\ pc = "main"
    /\ IF p1.x = p2.x /\ p1.y = p2.y /\ p1.z = p2.z /\ p1.g # p2.g
       THEN executed' = Append(executed, MovePoint(p2))
       ELSE LET micro_steps == interpolate_points(p1, p2, STEP_SIZE_MM)
            IN  executed' = executed
                            \o [i \in 1..Len(micro_steps) |->
                                   MovePoint(micro_steps[i])]
                            \o <<MovePoint(p2)>>
    /\ pc' = "executed"
    /\ UNCHANGED <<prog, fbVars, hostVars, pause, LAST_JOINTS_5DOF, sent, ikLog,
                   ctlVars, args, ret>>

-----------------------------------------------------------------------------
(* roarm_safety.py *)

\* HAND_MIN = 1.1 rad
HAND_MIN == 110

JointState(base, shoulder, elbow, wrist, roll, hand) ==
    [base |-> base, shoulder |-> shoulder, elbow |-> elbow, wrist |-> wrist,
     roll |-> roll, hand |-> hand]

\* a mutant of clamp_hand: the comparison is one centi-radian too low
clamp_hand_low(q) ==
    LET hand == IF q.hand < HAND_MIN - 1 THEN HAND_MIN ELSE q.hand
    IN  JointState(q.base, q.shoulder, q.elbow, q.wrist, q.roll, hand)

\* clamp_hand(q)
clamp_hand(q) ==
    LET hand == IF q.hand < HAND_MIN THEN HAND_MIN ELSE q.hand
    IN  JointState(q.base, q.shoulder, q.elbow, q.wrist, q.roll, hand)

(* roarm_gripper.py *)

\* HAND_MIN_SAFE = 1.2 rad
HAND_MIN_SAFE == 120

\* clamp_safe(g)
clamp_safe(g) == IF g < HAND_MIN_SAFE THEN HAND_MIN_SAFE ELSE g

(* lessons/01_trajectory_and_gripper/circle_demo.py *)

\* GRIPPER_MIN = 1.2 rad
GRIPPER_MIN == 120

\* safe_gripper_angle(g)
safe_gripper_angle(g) == IF g < GRIPPER_MIN THEN GRIPPER_MIN ELSE g

-----------------------------------------------------------------------------
(* roarm_simple_move.py and archive/roarm_fkik_uart.py: feedback reads *)

\* read_feedback(s, seconds=1.2): the read window (ms)
FEEDBACK_WINDOW == 1200
\* open_serial: serial.Serial(..., timeout=1.0), the longest one readline()
\* blocks (ms)
SERIAL_TIMEOUT == 1000

\* a T=1051 reply; x, y, z in millimetres
Feedback(x, y, z) == [T |-> 1051, x |-> x, y |-> y, z |-> z]
\* read_feedback's `last = None`
NoFeedback == [T |-> 0, x |-> 0, y |-> 0, z |-> 0]

\* what one s.readline() hands back: b"" on a timeout, or a line, of which
\* the loop looks at whether the text starts with "{", whether json.loads
\* accepts it, and the decoded message
RawLine(empty, brace, json, msg) ==
    [empty |-> empty, brace |-> brace, json |-> json, msg |-> msg]

\* one message written to the serial port by these scripts: its T and, for
\* T=102, the joint solution it carries, named by the ik_xyz call (ik) or by
\* the revision of the refiner's joint estimate and the probe offsets
Msg(T, ik, rev, dsh, del) ==
    [T |-> T, ik |-> ik, rev |-> rev, dsh |-> dsh, del |-> del]

\* read_feedback up to its loop, after the caller has written `before`:
\* send_json(s, {"T": 105}), end = time.time() + seconds, last = None.
\* `cont` is where the caller goes on with the result.
read_feedback(before, cont) ==
    /\ sent' = sent \o before \o <<Msg(105, 0, 0, 0, 0)>>
    /\ rd' = [elapsed |-> 0, last |-> NoFeedback, inWindow |-> NoFeedback,
              cont |-> cont]
    /\ pc' = "read"

\* one pass of read_feedback's loop: time.time() < end, then readline(),
\* which returns `raw` after d milliseconds; rd.inWindow is the last T=1051
\* reply that arrived no later than the end of the window
read_feedback_loop(raw, d) ==
    /\ pc = "read"
    /\ rd.elapsed < FEEDBACK_WINDOW
    /\ LET arrival == rd.elapsed + d
           txt_ok == ~raw.empty /\ raw.brace
           is1051 == txt_ok /\ raw.json /\ raw.msg.T = 1051
       IN  rd' = [rd EXCEPT
                     !.elapsed = arrival,
                     !.last = IF is1051 THEN raw.msg ELSE @,
                     !.inWindow = IF is1051 /\ arrival <= FEEDBACK_WINDOW
                                  THEN raw.msg ELSE @]
    /\ UNCHANGED <<prog, pc, sent, ikLog, args, ret, fb, rf, obs, coreVars>>

\* safe_ok(x, z, zmin, xmin, xmax)
safe_ok(x, z, zmin, xmin, xmax) == z >= zmin /\ xmin <= x /\ x <= xmax

\* --zmin, --xmin, --xmax (defaults, mm)
ZMIN == 150
XMIN == -220
XMAX == 560

\* read_feedback's `return last` once time.time() >= end; obs records
\* whether a returned sample was outside the safety box and whether a read
\* made after a motion command came back empty
read_feedback_return ==
    /\ pc = "read"
    /\ rd.elapsed >= FEEDBACK_WINDOW
    /\ pc' = rd.cont
    /\ obs' = [obs EXCEPT
                  !.unsafeSeen = @ \/ (/\ rd.last # NoFeedback
                                       /\ ~safe_ok(rd.last.x, rd.last.z,
                                                   ZMIN, XMIN, XMAX)),
                  !.noFb = @ \/ (rd.last = NoFeedback /\ rd.cont # "fb0")]
    /\ UNCHANGED <<prog, sent, ikLog, args, ret, fb, rf, rd, coreVars>>

\* the replies the device is sampled to give for the target (300, 0, 200):
\* within tolerance, off target inside the safety box, and below zmin
FeedbackSamples ==
    { Feedback(299, 0, 201), Feedback(280, 0, 190), Feedback(280, 0, 100) }

\* the lines the port is sampled to deliver: a timeout, text that does not
\* start with "{", text json.loads rejects, a JSON message that is not a
\* T=1051, and the T=1051 replies
RawLines ==
    { RawLine(TRUE, FALSE, FALSE, NoFeedback),
      RawLine(FALSE, FALSE, FALSE, NoFeedback),
      RawLine(FALSE, TRUE, FALSE, NoFeedback),
      RawLine(FALSE, TRUE, TRUE, [T |-> 105, x |-> 0, y |-> 0, z |-> 0]) }
    \cup { RawLine(FALSE, TRUE, TRUE, m) : m \in FeedbackSamples }

\* how long after the readline() call its line is complete (ms); a timeout
\* takes SERIAL_TIMEOUT
ReadDelays == {200, 600, SERIAL_TIMEOUT}

ReadFeedbackLoop ==
    \E raw \in RawLines, d \in ReadDelays :
        /\ raw.empty => d = SERIAL_TIMEOUT
        /\ read_feedback_loop(raw, d)

\* (tx-fx)^2 + (ty-fy)^2 + (tz-fz)^2
Err2(target, f) ==
    (target[1] - f.x) * (target[1] - f.x)
    + (target[2] - f.y) * (target[2] - f.y)
    + (target[3] - f.z) * (target[3] - f.z)

-----------------------------------------------------------------------------
(* roarm_simple_move.py: cmd_goto_xyz *)

\* --tol default 2.0 (mm)
TOL == 2
\* --gain default 0.35, as GAIN / GAIN_DEN
GAIN == 35
GAIN_DEN == 100

\* cmd_goto_xyz up to its first read: the z_t < zmin rejection (sys.exit(1)),
\* open_serial, read_feedback for the current wrist, roll and gripper
cmd_goto_xyz ==
    /\ prog = "goto_xyz"
    /\ pc = "main"
    /\ IF args.target[3] < ZMIN
       THEN /\ pc' = "exit"
            /\ UNCHANGED <<sent, rd, obs>>
       ELSE /\ obs' = [obs EXCEPT !.opened = TRUE]
            /\ read_feedback(<<>>, "fb0")
    /\ UNCHANGED <<prog, ikLog, args, ret, fb, rf, coreVars>>

\* fb0 is in (defaults are used when it is None): torque_lock, the initial
\* ik_xyz on the requested target, send_joints, the settle sleep, and the
\* read after the move
goto_initial_move ==
    /\ prog = "goto_xyz"
    /\ pc = "fb0"
    /\ ikLog' = Append(ikLog, [target |-> args.target, den |-> 1])
    /\ read_feedback(<<Msg(210, 0, 0, 0, 0), Msg(102, Len(ikLog'), 0, 0, 0)>>,
                     "fb1")
    /\ UNCHANGED <<prog, args, ret, fb, rf, obs, coreVars>>

\* after the initial move: `if not fb: return`, then the refine loop is
\* entered when --refine is given and iters > 0
goto_after_initial ==
    /\ prog = "goto_xyz"
    /\ pc = "fb1"
    /\ IF rd.last = NoFeedback
       THEN pc' = "done" /\ UNCHANGED <<fb, rf>>
       ELSE IF args.refine /\ args.iters > 0
            THEN /\ fb' = rd.last
                 /\ rf' = [rf EXCEPT !.i = 1]
                 /\ pc' = "refine"
            ELSE pc' = "done" /\ UNCHANGED <<fb, rf>>
    /\ UNCHANGED <<prog, sent, ikLog, args, ret, rd, obs, coreVars>>

\* a mutant of goto_refine_step: adj_z is not raised to zmin
goto_refine_step_noclip ==
    /\ prog = "goto_xyz"
    /\ pc = "refine"
    /\ IF rf.i > args.iters \/ Err2(args.target, fb) <= TOL * TOL
       THEN /\ pc' = "done"
            /\ UNCHANGED <<sent, ikLog, rd>>
       ELSE LET adj_x == GAIN_DEN * fb.x + GAIN * (args.target[1] - fb.x)
                adj_y == GAIN_DEN * fb.y + GAIN * (args.target[2] - fb.y)
                adj_z == GAIN_DEN * fb.z + GAIN * (args.target[3] - fb.z)
            IN  /\ ikLog' = Append(ikLog, [target |-> <<adj_x, adj_y, adj_z>>,
                                           den |-> GAIN_DEN])
                /\ read_feedback(<<Msg(102, Len(ikLog'), 0, 0, 0)>>, "fbn")
    /\ UNCHANGED <<prog, args, ret, fb, rf, obs, coreVars>>

\* one pass of the refine loop up to its read: the tolerance test, the step
\* toward the target (numerators over GAIN_DEN), the zmin clip, ik_xyz and
\* send_joints; the loop ends when range(1, iters + 1) is exhausted
goto_refine_step ==
    /\ prog = "goto_xyz"
    /\ pc = "refine"
    /\ IF rf.i > args.iters \/ Err2(args.target, fb) <= TOL * TOL
       THEN /\ pc' = "done"
            /\ UNCHANGED <<sent, ikLog, rd>>
       ELSE LET adj_x == GAIN_DEN * fb.x + GAIN * (args.target[1] - fb.x)
                adj_y == GAIN_DEN * fb.y + GAIN * (args.target[2] - fb.y)
                adj_z == GAIN_DEN * fb.z + GAIN * (args.target[3] - fb.z)
                clipped_z == IF adj_z < ZMIN * GAIN_DEN
                             THEN ZMIN * GAIN_DEN ELSE adj_z
            IN  /\ ikLog' = Append(ikLog,
                       [target |-> <<adj_x, adj_y, clipped_z>>,
                        den |-> GAIN_DEN])
                /\ read_feedback(<<Msg(102, Len(ikLog'), 0, 0, 0)>>, "fbn")
    /\ UNCHANGED <<prog, args, ret, fb, rf, obs, coreVars>>

\* the read after a refine step: `if not next_fb: break`, else current_fb =
\* next_fb and the next pass
goto_refine_feedback ==
    /\ prog = "goto_xyz"
    /\ pc = "fbn"
    /\ IF rd.last = NoFeedback
       THEN pc' = "done" /\ UNCHANGED <<fb, rf>>
       ELSE /\ fb' = rd.last
            /\ rf' = [rf EXCEPT !.i = @ + 1]
            /\ pc' = "refine"
    /\ UNCHANGED <<prog, sent, ikLog, args, ret, rd, obs, coreVars>>

-----------------------------------------------------------------------------
(* archive/roarm_fkik_uart.py: refine_to_target *)

\* --probe default 0.010 rad (centi-radians)
PROBE == 1

\* the refine loop's frame: iterations started (i), corrections applied to
\* the joint estimate (rev), and the four probe replies.  The joint angles
\* themselves are not tracked: a command is named by the revision of the
\* estimate it carries and the probe offset added to shoulder and elbow.
NoRefine ==
    [i |-> 0, rev |-> 0, fb_sp |-> NoFeedback, fb_sm |-> NoFeedback,
     fb_ep |-> NoFeedback, fb_em |-> NoFeedback]

NoRead == [elapsed |-> 0, last |-> NoFeedback, inWindow |-> NoFeedback,
           cont |-> "none"]

NoObs == [opened |-> FALSE, unsafeSeen |-> FALSE, noFb |-> FALSE,
          stopped |-> FALSE]

\* do_move(b, sh, el) up to its read: send_joints, the settle sleep,
\* read_feedback
do_move(rev, dsh, del, cont) ==
    read_feedback(<<Msg(102, 0, rev, dsh, del)>>, cont)

\* det = dxdsh * dzdel - dxdel * dzdsh, times (2 * probe)^2: with replies in
\* whole millimetres abs(det) < 1e-6 exactly when this is 0
DetNum(fb_sp, fb_sm, fb_ep, fb_em) ==
    (fb_sp.x - fb_sm.x) * (fb_ep.z - fb_em.z)
    - (fb_ep.x - fb_em.x) * (fb_sp.z - fb_sm.z)

\* refine_to_target's entry: fb = do_move(base, shoulder, elbow)
refine_to_target ==
    /\ prog = "refine_to_target"
    /\ pc = "main"
    /\ do_move(0, 0, 0, "r_fb")
    /\ UNCHANGED <<prog, ikLog, args, ret, fb, rf, obs, coreVars>>

\* do_move's `if not fb: raise RuntimeError`, else `fb = ...` for the move
\* that starts the loop or ends an iteration
refine_move_done ==
    /\ prog = "refine_to_target"
    /\ pc = "r_fb"
    /\ IF rd.last = NoFeedback
       THEN pc' = "raised" /\ UNCHANGED fb
       ELSE fb' = rd.last /\ pc' = "iter"
    /\ UNCHANGED <<prog, sent, ikLog, args, ret, rf, rd, obs, coreVars>>

\* a mutant of refine_iteration: the loop runs one pass beyond range(iters)
refine_iteration_overrun ==
    /\ prog = "refine_to_target"
    /\ pc = "iter"
    /\ IF \/ rf.i > args.iters
          \/ ~safe_ok(fb.x, fb.z, ZMIN, XMIN, XMAX)
          \/ Err2(args.target, fb) <= TOL * TOL
       THEN /\ pc' = "returned"
            /\ ret' = [rev |-> rf.rev, fb |-> fb]
            /\ UNCHANGED <<sent, rd, rf>>
       ELSE /\ rf' = [rf EXCEPT !.i = @ + 1]
            /\ do_move(rf.rev, PROBE, 0, "p1")
            /\ UNCHANGED ret
    /\ UNCHANGED <<prog, ikLog, args, fb, obs, coreVars>>

\* the head of one loop pass: range(iters) exhausted (return base, shoulder,
\* elbow, fb), the safety guard on fb (break), the tolerance test err <= 2.0
\* (break), else the first probe do_move(base, shoulder + probe, elbow)
refine_iteration ==
    /\ prog = "refine_to_target"
    /\ pc = "iter"
    /\ IF \/ rf.i >= args.iters
          \/ ~safe_ok(fb.x, fb.z, ZMIN, XMIN, XMAX)
          \/ Err2(args.target, fb) <= TOL * TOL
       THEN /\ pc' = "returned"
            /\ ret' = [rev |-> rf.rev, fb |-> fb]
            /\ UNCHANGED <<sent, rd, rf>>
       ELSE /\ rf' = [rf EXCEPT !.i = @ + 1]
            /\ do_move(rf.rev, PROBE, 0, "p1")
            /\ UNCHANGED ret
    /\ UNCHANGED <<prog, ikLog, args, fb, obs, coreVars>>

\* the probe replies fb_sp, fb_sm, fb_ep come in (do_move raises on None)
\* and the next probe goes out: shoulder - probe, elbow + probe, elbow - probe
refine_probe ==
    /\ prog = "refine_to_target"
    /\ pc \in {"p1", "p2", "p3"}
    /\ IF rd.last = NoFeedback
       THEN /\ pc' = "raised"
            /\ UNCHANGED <<sent, rd, rf>>
       ELSE \/ /\ pc = "p1"
               /\ rf' = [rf EXCEPT !.fb_sp = rd.last]
               /\ do_move(rf.rev, -PROBE, 0, "p2")
            \/ /\ pc = "p2"
               /\ rf' = [rf EXCEPT !.fb_sm = rd.last]
               /\ do_move(rf.rev, 0, PROBE, "p3")
            \/ /\ pc = "p3"
               /\ rf' = [rf EXCEPT !.fb_ep = rd.last]
               /\ do_move(rf.rev, 0, -PROBE, "p4")
    /\ UNCHANGED <<prog, ikLog, args, ret, fb, obs, coreVars>>

\* a mutant of refine_correct: the near-singular test is left out and the
\* correction is commanded in every case
refine_correct_always ==
    /\ prog = "refine_to_target"
    /\ pc = "p4"
    /\ IF rd.last = NoFeedback
       THEN /\ pc' = "raised"
            /\ UNCHANGED <<sent, rd, rf, ret>>
       ELSE /\ rf' = [NoRefine EXCEPT !.i = rf.i, !.rev = rf.rev + 1]
            /\ do_move(rf.rev + 1, 0, 0, "r_fb")
            /\ UNCHANGED ret
    /\ UNCHANGED <<prog, ikLog, args, fb, obs, coreVars>>

\* fb_em comes in: the 2x2 solve; a near-singular Jacobian breaks out of the
\* loop, otherwise shoulder, elbow (and base) are corrected and the new
\* estimate is commanded: fb = do_move(base, shoulder, elbow)
refine_correct ==
    /\ prog = "refine_to_target"
    /\ pc = "p4"
    /\ IF rd.last = NoFeedback
       THEN /\ pc' = "raised"
            /\ UNCHANGED <<sent, rd, rf, ret>>
       ELSE IF DetNum(rf.fb_sp, rf.fb_sm, rf.fb_ep, rd.last) = 0
            THEN /\ pc' = "returned"
                 /\ ret' = [rev |-> rf.rev, fb |-> fb]
                 /\ UNCHANGED <<sent, rd, rf>>
            ELSE /\ rf' = [NoRefine EXCEPT !.i = rf.i, !.rev = rf.rev + 1]
                 /\ do_move(rf.rev + 1, 0, 0, "r_fb")
                 /\ UNCHANGED ret
    /\ UNCHANGED <<prog, ikLog, args, fb, obs, coreVars>>

-----------------------------------------------------------------------------
(* lessons/05_vision_guided_motion/trackobject_auto.py *)

\* the tracker's fence (mm), hover height, gripper value (centi-radians)
\* and largest step per frame (mm)
MIN_X == 200
MAX_X == 380
MIN_Y == -150
MAX_Y == 150
SAFE_Z == 260
GRIPPER_SAFE == 300
MAX_STEP == 10
\* frames handled in one run
MaxFrames == 3

\* move_stream(x, y, z): x and y clipped to the fence, one T=1041 write
move_stream(x, y, z) ==
    sent' = Append(sent,
        Cmd(1041, <<Min(Max(x, MIN_X), MAX_X), Min(Max(y, MIN_Y), MAX_Y), z>>,
            1, GRIPPER_SAFE, 0, 0, Len(sent) + 1))

\* where get_actual_pos finds the arm (x, y); NoFeedback is its None
TrackStarts == { Feedback(300, 0, 0), Feedback(375, 145, 0), NoFeedback }

\* the script up to its main loop: torque on (T=210, cmd 1),
\* get_actual_pos (T=105), then v_x, v_y = fb and the first move_stream, or
\* exit() when the robot is offline
track_startup(pos) ==
    /\ prog = "trackobject_auto"
    /\ pc = "main"
    /\ IF pos = NoFeedback
       THEN /\ sent' = sent \o <<Cmd(210, <<1>>, 1, 0, 0, 0, 0),
                                 Cmd(105, <<>>, 1, 0, 0, 0, 0)>>
            /\ pc' = "exit"
            /\ UNCHANGED <<fb, k>>
       ELSE /\ sent' = sent \o <<Cmd(210, <<1>>, 1, 0, 0, 0, 0),
                                 Cmd(105, <<>>, 1, 0, 0, 0, 0),
                                 Cmd(1041, <<Min(Max(pos.x, MIN_X), MAX_X),
                                            Min(Max(pos.y, MIN_Y), MAX_Y),
                                            SAFE_Z>>,
                                     1, GRIPPER_SAFE, 0, 0, 3)>>
            /\ fb' = pos
            /\ k' = 0
            /\ pc' = "loop"
    /\ UNCHANGED <<prog, rf, rd, obs, hostVars, pause, LAST_JOINTS_5DOF,
                   ikLog, lm, last_joints, j2, microsteps, seg, funVars>>

TrackStartup == \E pos \in TrackStarts : track_startup(pos)

\* one pass of the main loop with no "q" on stdin: a frame in which the
\* target is off centre by (dx, dy) after the gain and the MAX_STEP clip
\* moves the virtual pose and streams it; a frame without a target, or
\* with the target centred, sends nothing
track_frame(dx, dy) ==
    /\ prog = "trackobject_auto"
    /\ pc = "loop"
    /\ k < MaxFrames
    /\ k' = k + 1
    /\ IF dx = 0 /\ dy = 0
       THEN UNCHANGED <<fb, sent>>
       ELSE /\ fb' = [fb EXCEPT !.x = @ + dx, !.y = @ + dy]
            /\ move_stream(fb.x + dx, fb.y + dy, SAFE_Z)
    /\ UNCHANGED <<prog, pc, rf, rd, obs, hostVars, pause, LAST_JOINTS_5DOF,
                   ikLog, lm, last_joints, j2, microsteps, seg, funVars>>

TrackFrame ==
    \E dx \in {-MAX_STEP, 0, MAX_STEP}, dy \in {0, MAX_STEP} :
        track_frame(dx, dy)

\* the stop: "q" read at the head of a pass (break), or Ctrl+C anywhere in
\* the loop (except KeyboardInterrupt); both reach the finally block, which
\* closes the camera and the port and writes nothing
track_stop ==
    /\ prog = "trackobject_auto"
    /\ pc = "loop"
    /\ pc' = "done"
    /\ obs' = [obs EXCEPT !.stopped = TRUE]
    /\ UNCHANGED <<prog, fb, rf, rd, hostVars, pause, LAST_JOINTS_5DOF,
                   sent, ikLog, ctlVars, funVars>>

-----------------------------------------------------------------------------
(* roarm_control.py: main, and main_controller.py *)

\* how a subprocess run of the control script can end, as far as
\* run_control_command tells the cases apart: exit 0 with nothing on stderr
\* ("ok"); a non-zero exit with "Usage:" on stdout ("usage"); another
\* non-zero exit with no error text ("nonzero"); a non-zero exit with a
\* traceback or other text containing "error" on stderr ("crash"); exit 0
\* with such text on stderr ("error_text"); no exit within the timeout
\* ("timeout"); and the interpreter at VENV_PYTHON_PATH missing
\* ("not_found")
SubprocessOutcomes ==
    {"ok", "usage", "nonzero", "crash", "error_text", "timeout", "not_found"}

\* roarm_control.py's main on the arguments after the script name, when
\* nothing around it fails: anything but six arguments prints the usage
\* text and exits 1, a first argument other than "move" exits 1, and a
\* move with five numbers runs move_to and exits 0
roarm_control_main(argv) ==
    IF Len(argv) # 6 THEN "usage"
    ELSE IF argv[1] # "move" THEN "nonzero"
    ELSE "ok"

\* one run_control_command call in progress: its command_list, its check
\* argument, and where execute_mission goes on when it returns
Frame(argv, check, cont) == [argv |-> argv, check |-> check, cont |-> cont]

\* subprocess.run raises: TimeoutExpired, or CalledProcessError under
\* check=True
Raises(frame, out) ==
    \/ out = "timeout"
    \/ frame.check /\ out \in {"usage", "nonzero", "crash"}

\* the run came back and `"ERROR" in result.stderr.upper()`
ReportsError(frame, out) ==
    ~Raises(frame, out) /\ out \in {"crash", "error_text"}

\* deepest nesting of run_control_command followed
MaxDepth == 3
\* longest mission
MaxWaypoints == 2

\* execute_mission up to its loop: run_control_command(['torque_on'])
execute_mission ==
    /\ prog = "main_controller"
    /\ pc = "main"
    /\ mc' = [i |-> 0, stack |-> <<Frame(<<"torque_on">>, TRUE, "loop")>>]
    /\ pc' = "call"
    /\ UNCHANGED <<prog, fbVars, runs, gm, failed, pause, LAST_JOINTS_5DOF,
                   sent, ikLog, ctlVars, funVars>>

\* run_control_command from subprocess.run on: the run ends with `out`;
\* FileNotFoundError exits at once; an exception or error text on stderr
\* enters the handler, whose first statement is the nested call
\* run_control_command(['torque_off'], timeout=2, check=False); a normal
\* return goes back to execute_mission, or, inside a handler, to the
\* handler's exit(1)
run_control_command(out) ==
    LET frame == mc.stack[Len(mc.stack)]
    IN  /\ prog = "main_controller"
        /\ pc = "call"
        /\ runs' = Append(runs, Run(frame.argv, frame.check, out))
        /\ IF out = "not_found"
           THEN pc' = "exit1" /\ UNCHANGED mc
           ELSE IF Raises(frame, out) \/ ReportsError(frame, out)
           THEN /\ Len(mc.stack) < MaxDepth
                /\ mc' = [mc EXCEPT !.stack =
                              Append(@, Frame(<<"torque_off">>, FALSE, "exit1"))]
                /\ UNCHANGED pc
           ELSE IF Len(mc.stack) > 1
           THEN pc' = "exit1" /\ UNCHANGED mc
           ELSE /\ pc' = frame.cont
                /\ mc' = [mc EXCEPT !.stack = <<>>]
        /\ UNCHANGED <<prog, fbVars, gm, failed, pause, LAST_JOINTS_5DOF,
                       sent, ikLog, ctlVars, funVars>>

RunControlCommand == \E out \in SubprocessOutcomes : run_control_command(out)

\* a waypoint of the mission file: x, y, z (mm), and whether all three
\* keys are present
Waypoint(xyz, complete) == [xyz |-> xyz, complete |-> complete]

\* one pass of execute_mission's loop: a waypoint with a missing coordinate
\* is skipped; otherwise the move command (roll_pitch and roll_angle
\* default to 0) is run; after the last waypoint, torque_off
mission_loop ==
    LET i == mc.i + 1
        wp == args.waypoints[i]
    IN  /\ prog = "main_controller"
        /\ pc = "loop"
        /\ IF i > Len(args.waypoints)
           THEN /\ mc' = [mc EXCEPT !.stack =
                              <<Frame(<<"torque_off">>, TRUE, "done")>>]
                /\ pc' = "call"
           ELSE IF ~wp.complete
           THEN mc' = [mc EXCEPT !.i = i] /\ UNCHANGED pc
           ELSE /\ mc' = [i |-> i,
                          stack |-> <<Frame(<<"move", wp.xyz[1], wp.xyz[2],
                                              wp.xyz[3], 0, 0>>,
                                            TRUE, "loop")>>]
                /\ pc' = "call"
        /\ UNCHANGED <<prog, fbVars, runs, gm, failed, pause,
                       LAST_JOINTS_5DOF, sent, ikLog, ctlVars, funVars>>

-----------------------------------------------------------------------------
(* test_fk_ik_consistency.py, roarm_simple_move.py and archive/ik.py: the
   planar kinematics *)

(* Positions are kept in cylindrical form: the vertical plane through the
   base axis they lie in (base, in centi-radians, and flip for the opposite
   half plane, base + pi), the radius rho in that half plane and the height
   z, both in 1/KDen mm.  Angles of shoulder and elbow are sampled where
   sine and cosine are rational (c/5, s/5), so that the forward kinematics
   are exact.  A shoulder/elbow pair is kept as the point w its two links
   reach, L1*(sin phi, cos phi) + L2*(sin phi2, cos phi2): the triangle
   solve (law of cosines, while cos_e is inside [-1, 1]) returns the pair
   whose links reach the point it was given. *)
KDen == 25

Rot(c, s) == [c |-> c, s |-> s]

\* load_calib's defaults for L1 and L2 (mm), with X0, Z0 as fitted by
\* roarm_fit_planar.py (angle offsets 0)
Calib(X0, Z0) == [L1 |-> 238, L2 |-> 316, X0 |-> X0, Z0 |-> Z0]

\* L1*sin(phi) + L2*sin(phi2), L1*cos(phi) + L2*cos(phi2) with
\* phi2 = phi + e_eff, times KDen
LinkReach(sh, el, calib) ==
    << calib.L1 * 5 * sh.s + calib.L2 * (sh.s * el.c + sh.c * el.s),
       calib.L1 * 5 * sh.c + calib.L2 * (sh.c * el.c - sh.s * el.s) >>

PlanarJoints(base, flip, w) == [base |-> base, flip |-> flip, w |-> w]
Position(base, flip, rho, z) ==
    [base |-> base, flip |-> flip, rho |-> rho, z |-> z]

\* fk_planar / fk_xyz: x_p = (link terms) + X0, z_p = (link terms) + Z0,
\* then x = cos(base) * x_p, y = sin(base) * x_p, z = z_p
fk_planar(j, calib) ==
    Position(j.base, j.flip, j.w[1] + KDen * calib.X0,
             j.w[2] + KDen * calib.Z0)

\* base = atan2(y, x) and x_p = hypot(x, y) of a position: a negative
\* radius is the opposite half plane
Atan2Base(p) ==
    IF p.rho = 0 THEN [base |-> 0, flip |-> FALSE]
    ELSE IF p.rho < 0 THEN [base |-> p.base, flip |-> ~p.flip]
    ELSE [base |-> p.base, flip |-> p.flip]

\* (r2 - L1^2 - L2^2) and 2*L1*L2, both times KDen^2, for the point (xs, zs)
CosENum(xs, zs, calib) ==
    xs * xs + zs * zs
    - (calib.L1 * calib.L1 + calib.L2 * calib.L2) * KDen * KDen
CosEDen(calib) == 2 * calib.L1 * calib.L2 * KDen * KDen

\* test_fk_ik_consistency.ik_planar: r2 from x_p and z as they come in (X0
\* and Z0 are not subtracted), (0, 0, 0, False) when cos_e is outside
\* [-1, 1], else the triangle solve
ik_planar(p, calib) ==
    LET x_p == Abs(p.rho)
        num == CosENum(x_p, p.z, calib)
        b == Atan2Base(p)
    IN  IF num < -CosEDen(calib) \/ num > CosEDen(calib)
        THEN [ok |-> FALSE, clamped |-> FALSE,
              j |-> PlanarJoints(0, FALSE, <<0, 0>>)]
        ELSE [ok |-> TRUE, clamped |-> FALSE,
              j |-> PlanarJoints(b.base, b.flip, <<x_p, p.z>>)]

\* roarm_simple_move.ik_xyz: xs = xp - X0, zs = z - Z0, cos_e clamped to
\* [-1, 1], and a joint triple is returned in every case (`clamped` tells
\* that the clamp changed cos_e, in which case the links do not reach w)
ik_xyz(p, calib) ==
    LET xs == Abs(p.rho) - KDen * calib.X0
        zs == p.z - KDen * calib.Z0
        num == CosENum(xs, zs, calib)
        b == Atan2Base(p)
    IN  [ok |-> TRUE,
         clamped |-> num < -CosEDen(calib) \/ num > CosEDen(calib),
         j |-> PlanarJoints(b.base, b.flip, <<xs, zs>>)]

\* archive/ik.py: link lengths (mm) and the scale applied to x and y, as
\* SCALE_NUM / SCALE_DEN = 3.8
ARCHIVE_L1 == 120
ARCHIVE_L2 == 130
ARCHIVE_L3 == 130
SCALE_NUM == 38
SCALE_DEN == 10

\* archive/ik.py inverse_kinematics up to its reach check, on a target in
\* whole mm: D = hypot(x, y) / 3.8, h = z - L1, R = sqrt(D^2 + h^2), None
\* when R > L2 + L3 or R < abs(L2 - L3); compared as squares times
\* SCALE_NUM^2
archive_inverse_kinematics(rho, z) ==
    LET h == z - ARCHIVE_L1
        R2 == SCALE_DEN * SCALE_DEN * rho * rho + SCALE_NUM * SCALE_NUM * h * h
        far == (ARCHIVE_L2 + ARCHIVE_L3) * (ARCHIVE_L2 + ARCHIVE_L3)
                   * SCALE_NUM * SCALE_NUM
        near == (ARCHIVE_L2 - ARCHIVE_L3) * (ARCHIVE_L2 - ARCHIVE_L3)
                    * SCALE_NUM * SCALE_NUM
    IN  [ok |-> ~(R2 > far \/ R2 < near)]

\* signed radius along the position's own base direction
SignedRho(p) == IF p.flip THEN -p.rho ELSE p.rho

\* squared distance of two positions of one vertical plane, in (1/KDen mm)^2
PosErr2(p, q) ==
    (SignedRho(p) - SignedRho(q)) * (SignedRho(p) - SignedRho(q))
    + (p.z - q.z) * (p.z - q.z)

-----------------------------------------------------------------------------
(* roarm_collect_samples_safe.py: guarded_move *)

\* a T=1051 reply as guarded_move reads it: x and z (mm) and the measured
\* base, shoulder and elbow (centi-radians)
JointFeedback(x, z, b, sh, el) ==
    [T |-> 1051, x |-> x, z |-> z, b |-> b, s |-> sh, e |-> el]
\* get_feedback's None
NoJointFeedback == [T |-> 0, x |-> 0, z |-> 0, b |-> 0, s |-> 0, e |-> 0]

\* one message written by guarded_move: T, the joints base, shoulder,
\* elbow as numerators over den, and spd in hundredths
GuardCmd(T, p, den, spd) == [T |-> T, p |-> p, den |-> den, spd |-> spd]

\* the retreat's spd=0.6
RETREAT_SPD == 60
\* largest `steps` argument tried
MaxGuardSteps == 3

\* guarded_move's `(z < zmin) or (x < xmin) or (x > xmax)`
Forbidden(f) == f.z < args.zmin \/ f.x < args.xmin \/ f.x > args.xmax

\* guarded_move up to its loop: fb0 = get_feedback(s, wait=0.8), which
\* writes T=105 and reads `reply`; (False, None) when there is none, else
\* b0, s0, e0 from the reply
guarded_move(reply) ==
    /\ prog = "guarded_move"
    /\ pc = "main"
    /\ sent' = Append(sent, GuardCmd(105, <<>>, 1, 0))
    /\ IF reply = NoJointFeedback
       THEN /\ ret' = [ok |-> FALSE, fb |-> NoJointFeedback]
            /\ pc' = "returned"
            /\ UNCHANGED gm
       ELSE /\ gm' = [k |-> 1, b0 |-> reply.b, s0 |-> reply.s,
                      e0 |-> reply.e, seen |-> <<>>]
            /\ pc' = "step"
            /\ UNCHANGED ret
    /\ UNCHANGED <<prog, fbVars, runs, mc, failed, pause, LAST_JOINTS_5DOF,
                   ikLog, ctlVars, args, executed>>

\* the joints of step k: b0 + (k/steps)(target - b0), as numerators over
\* steps
GuardStep(kk) ==
    << gm.b0 * args.steps + kk * (args.target[1] - gm.b0),
       gm.s0 * args.steps + kk * (args.target[2] - gm.s0),
       gm.e0 * args.steps + kk * (args.target[3] - gm.e0) >>

\* a mutant of guarded_move_step: a reply in the forbidden region does not
\* end the move
guarded_move_step_through(reply) ==
    /\ prog = "guarded_move"
    /\ pc = "step"
    /\ gm.k <= args.steps
    /\ IF reply = NoJointFeedback
       THEN /\ sent' = sent \o <<GuardCmd(102, GuardStep(gm.k), args.steps,
                                          args.spd),
                                 GuardCmd(105, <<>>, 1, 0)>>
            /\ ret' = [ok |-> FALSE, fb |-> NoJointFeedback]
            /\ pc' = "returned"
            /\ UNCHANGED gm
       ELSE /\ sent' = sent \o <<GuardCmd(102, GuardStep(gm.k), args.steps,
                                          args.spd),
                                 GuardCmd(105, <<>>, 1, 0)>>
            /\ gm' = [gm EXCEPT !.k = @ + 1, !.seen = Append(@, reply)]
            /\ UNCHANGED <<ret, pc>>
    /\ UNCHANGED <<prog, fbVars, runs, mc, failed, pause, LAST_JOINTS_5DOF,
                   ikLog, ctlVars, args, executed>>

\* one pass of guarded_move's loop: send_joints for step k, the sleep,
\* fb = get_feedback(s, wait=0.6); (False, None) on no reply; on a reply in
\* the forbidden region the retreat send_joints(fb.b, 0.0, 0.0, spd=0.6)
\* and (False, fb); else the next pass
guarded_move_step(reply) ==
    /\ prog = "guarded_move"
    /\ pc = "step"
    /\ gm.k <= args.steps
    /\ IF reply = NoJointFeedback
       THEN /\ sent' = sent \o <<GuardCmd(102, GuardStep(gm.k), args.steps,
                                          args.spd),
                                 GuardCmd(105, <<>>, 1, 0)>>
            /\ ret' = [ok |-> FALSE, fb |-> NoJointFeedback]
            /\ pc' = "returned"
            /\ UNCHANGED gm
       ELSE IF Forbidden(reply)
       THEN /\ sent' = sent \o <<GuardCmd(102, GuardStep(gm.k), args.steps,
                                          args.spd),
                                 GuardCmd(105, <<>>, 1, 0),
                                 GuardCmd(102, <<reply.b, 0, 0>>, 1,
                                          RETREAT_SPD)>>
            /\ gm' = [gm EXCEPT !.seen = Append(@, reply)]
            /\ ret' = [ok |-> FALSE, fb |-> reply]
            /\ pc' = "returned"
       ELSE /\ sent' = sent \o <<GuardCmd(102, GuardStep(gm.k), args.steps,
                                          args.spd),
                                 GuardCmd(105, <<>>, 1, 0)>>
            /\ gm' = [gm EXCEPT !.k = @ + 1, !.seen = Append(@, reply)]
            /\ UNCHANGED <<ret, pc>>
    /\ UNCHANGED <<prog, fbVars, runs, mc, failed, pause, LAST_JOINTS_5DOF,
                   ikLog, ctlVars, args, executed>>

\* range(1, steps + 1) is exhausted: `return True, fb`, where fb is the
\* last pass's reply; with steps = 0 no pass has bound fb and the return
\* raises UnboundLocalError
guarded_move_return ==
    /\ prog = "guarded_move"
    /\ pc = "step"
    /\ gm.k > args.steps
    /\ IF args.steps = 0
       THEN pc' = "raised" /\ UNCHANGED ret
       ELSE /\ ret' = [ok |-> TRUE, fb |-> gm.seen[Len(gm.seen)]]
            /\ pc' = "returned"
    /\ UNCHANGED <<prog, fbVars, hostVars, pause, LAST_JOINTS_5DOF, sent,
                   ikLog, ctlVars, args, executed>>

-----------------------------------------------------------------------------
(* Initial states and specifications *)

NoFrame == [call |-> 0, start |-> ZeroVec3, end |-> ZeroVec3, steps |-> 0,
            i |-> 0]

\* main_controller before execute_mission: no waypoint taken (i), no
\* run_control_command frame on the stack
NoMission == [i |-> 0, stack |-> <<>>]

\* guarded_move before its first read: the loop index k, the measured
\* start joints, and (history) the replies read after the steps so far
NoGuard == [k |-> 0, b0 |-> 0, s0 |-> 0, e0 |-> 0, seen |-> <<>>]

\* the state right after the modules are loaded
Loaded ==
    /\ pc = "main"
    /\ LAST_JOINTS_5DOF = DefaultPose
    /\ sent = <<>>
    /\ ikLog = <<>>
    /\ lm = NoFrame
    /\ last_joints = ZeroVec6
    /\ j2 = ZeroVec6
    /\ microsteps = <<>>
    /\ k = 0
    /\ seg = 0
    /\ ret = <<>>
    /\ executed = <<>>
    /\ pause = 0
    /\ fb = NoFeedback
    /\ rf = NoRefine
    /\ rd = NoRead
    /\ obs = NoObs
    /\ runs = <<>>
    /\ mc = NoMission
    /\ gm = NoGuard
    /\ failed = <<>>

(* The controllers: one of the three scripts runs *)
Init ==
    /\ prog \in {"roarm_control", "path_planner", "smooth_stream_direct"}
    /\ args = <<>>
    /\ Loaded

Next ==
    \/ MoveTo
    \/ MoveSinglePointInit
    \/ LinearMove
    \/ LinearMoveStep
    \/ LinearMoveReturn
    \/ StreamStartup
    \/ CalculateIKAndStream
    \/ stream_step
    \/ stream_return
    \/ StreamFinish

Spec == Init /\ [][Next]_vars

(* The streaming scripts under a user stop *)
InitStop ==
    /\ prog \in {"smooth_stream_direct", "trackobject_auto"}
    /\ args = <<>>
    /\ Loaded

NextStop ==
    \/ StreamStartup
    \/ CalculateIKAndStream
    \/ stream_step
    \/ stream_return
    \/ StreamFinish
    \/ StreamKeyboardInterrupt
    \/ TrackStartup
    \/ TrackFrame
    \/ track_stop

SpecStop == InitStop /\ [][NextStop]_vars

(* path_planner on a serial port that can fail *)
InitIO ==
    /\ prog = "path_planner"
    /\ args = <<>>
    /\ Loaded

NextIO ==
    \/ MoveSinglePointInit
    \/ LinearMove
    \/ LinearMoveStep
    \/ LinearMoveStepFailed
    \/ LinearMoveReturn

SpecIO == InitIO /\ [][NextIO]_vars

(* main_controller on missions of up to MaxWaypoints waypoints *)
WaypointSamples ==
    { Waypoint(<<150, 0, 100>>, TRUE), Waypoint(<<351, 0, 40>>, TRUE),
      Waypoint(<<150, 0, 0>>, FALSE) }

Missions ==
    UNION { [1..n -> WaypointSamples] : n \in 1..MaxWaypoints }

InitMission ==
    /\ prog = "main_controller"
    /\ args \in [waypoints : Missions]
    /\ Loaded

NextMission == execute_mission \/ RunControlCommand \/ mission_loop

SpecMission == InitMission /\ [][NextMission]_vars

\* the controller is one thread that keeps running until it exits
SpecMissionFair == SpecMission /\ WF_vars(NextMission)

(* The planar kinematics on sampled joints, calibrations and targets *)
\* largest X0 / Z0 offset tried (mm)
MaxOffset == 10

CalibSamples ==
    { Calib(X0, Z0) : X0 \in {0, MaxOffset}, Z0 \in {0, -MaxOffset} }

\* sample_joint's ranges: base in [-1.2, 1.2], shoulder in [-0.2, 2.2],
\* elbow in [-1.2, 1.2]; shoulder 0, 0.64, 0.93, 1.57 rad and elbow 0,
\* +-0.64, +-0.93 rad have rational sine and cosine
BaseSamples == {0, 64, -93}
ShoulderSamples == { Rot(5, 0), Rot(4, 3), Rot(3, 4), Rot(0, 5) }
ElbowSamples == { Rot(5, 0), Rot(4, 3), Rot(3, 4), Rot(4, -3), Rot(3, -4) }

\* targets (radius, height in mm) inside and beyond the reach L1 + L2 = 554
\* of the planar model and L2 + L3 = 260 of archive/ik.py
ReachTargets == { <<300, 200>>, <<400, 120>>, <<554, 0>>, <<600, 0>>,
                  <<0, 700>>, <<1000, 120>> }

InitKin ==
    /\ \/ /\ prog = "test_fk_ik_consistency"
          /\ args \in [calib : CalibSamples, base : BaseSamples,
                       sh : ShoulderSamples, el : ElbowSamples]
       \/ /\ prog = "ik_xyz"
          /\ args \in [calib : CalibSamples, base : BaseSamples,
                       target : ReachTargets]
    /\ Loaded

\* one pass of test_fk_ik_consistency.main's loop: FK, IK, and FK again
\* when IK reports success; next to it the same round trip through
\* roarm_simple_move's fk_xyz and ik_xyz
CallRoundTrip ==
    /\ prog = "test_fk_ik_consistency"
    /\ pc = "main"
    /\ LET j0 == PlanarJoints(args.base, FALSE,
                              LinkReach(args.sh, args.el, args.calib))
           p0 == fk_planar(j0, args.calib)
           r1 == ik_planar(p0, args.calib)
           r2 == ik_xyz(p0, args.calib)
       IN  ret' = [p0 |-> p0, ok |-> r1.ok,
                   p1 |-> IF r1.ok THEN fk_planar(r1.j, args.calib) ELSE p0,
                   simple_clamped |-> r2.clamped,
                   simple_p1 |-> fk_planar(r2.j, args.calib)]
    /\ pc' = "returned"
    /\ UNCHANGED <<prog, fbVars, hostVars, pause, LAST_JOINTS_5DOF, sent,
                   ikLog, ctlVars, args, executed>>

\* the three inverse kinematics on one target
CallReach ==
    /\ prog = "ik_xyz"
    /\ pc = "main"
    /\ LET p == Position(args.base, FALSE, KDen * args.target[1],
                         KDen * args.target[2])
       IN  ret' = [ik_xyz |-> ik_xyz(p, args.calib),
                   ik_planar |-> ik_planar(p, args.calib),
                   archive |-> archive_inverse_kinematics(args.target[1],
                                                          args.target[2])]
    /\ pc' = "returned"
    /\ UNCHANGED <<prog, fbVars, hostVars, pause, LAST_JOINTS_5DOF, sent,
                   ikLog, ctlVars, args, executed>>

NextKin == CallRoundTrip \/ CallReach

SpecKin == InitKin /\ [][NextKin]_vars

(* guarded_move on sampled targets and replies *)
\* replies inside the box, below zmin, beyond xmax and before xmin, and no
\* reply
GuardReplies ==
    { JointFeedback(300, 200, 0, 10, 20), JointFeedback(300, 100, 5, 40, 90),
      JointFeedback(600, 200, 5, 90, 0), JointFeedback(-230, 200, 0, -90, 0),
      NoJointFeedback }

\* main's defaults: --spd 0.35, --zmin 120, --xmin -220, --xmax 560
InitGuard ==
    /\ prog = "guarded_move"
    /\ args \in [target : {<<0, 30, 60>>, <<0, -60, 180>>},
                 steps : 0..MaxGuardSteps, spd : {35}, zmin : {120},
                 xmin : {-220}, xmax : {560}]
    /\ Loaded

GuardedMove == \E reply \in GuardReplies : guarded_move(reply)
GuardedMoveStep == \E reply \in GuardReplies : guarded_move_step(reply)

NextGuard == GuardedMove \/ GuardedMoveStep \/ guarded_move_return

SpecGuard == InitGuard /\ [][NextGuard]_vars

(* inverse_kinematics on every outcome of the solve *)
\* how far outside a joint's range the solver's x is sampled
Overshoot == 5

SolveSamples ==
    { [success |-> b, x |-> <<j[1], j[2], j[3], j[4], j[5]>>] :
        b \in BOOLEAN,
        j \in { [i \in 1..JOINTS_USED |-> v[i]] :
                  v \in {limits_min[1] - Overshoot, limits_min[1], 0,
                         limits_max[1], limits_max[1] + Overshoot}
                     \X {limits_min[2] - Overshoot, limits_min[2], 0,
                         limits_max[2], limits_max[2] + Overshoot}
                     \X {limits_min[3] - Overshoot, limits_min[3], 0,
                         limits_max[3], limits_max[3] + Overshoot}
                     \X {limits_min[4] - Overshoot, limits_min[4], 0,
                         limits_max[4], limits_max[4] + Overshoot}
                     \X {limits_min[5] - Overshoot, limits_min[5], 0,
                         limits_max[5], limits_max[5] + Overshoot} } }

InitIK ==
    /\ prog = "ik"
    /\ args \in SolveSamples
    /\ Loaded

CallInverseKinematics ==
    /\ prog = "ik"
    /\ pc = "main"
    /\ ret' = inverse_kinematics(args)
    /\ pc' = "returned"
    /\ UNCHANGED <<prog, fbVars, hostVars, pause, LAST_JOINTS_5DOF, sent, ikLog,
                   ctlVars, args, executed>>

NextIK == CallInverseKinematics

SpecIK == InitIK /\ [][NextIK]_vars

(* interpolate_joints on pairs of joint vectors *)
\* largest angular step size tried (centi-radians)
MaxStepRad == 5

JointSamples ==
    { <<b, s, e, 0, 0, h>> :
        b \in {0, 7}, s \in {0, -13}, e \in {0, 50}, h \in {0, 30} }

InitJoints ==
    /\ prog = "interpolate_joints"
    /\ args \in [j1 : JointSamples, j2 : JointSamples, step : 1..MaxStepRad]
    /\ Loaded

CallInterpolateJoints ==
    /\ prog = "interpolate_joints"
    /\ pc = "main"
    /\ ret' = interpolate_joints(args.j1, args.j2, args.step)
    /\ pc' = "returned"
    /\ UNCHANGED <<prog, fbVars, hostVars, pause, LAST_JOINTS_5DOF, sent, ikLog,
                   ctlVars, args, executed>>

NextJoints == CallInterpolateJoints

SpecJoints == InitJoints /\ [][NextJoints]_vars

(* The Cartesian planner on pairs of mission points *)
\* x runs over 0, 5, ..., 5 * MaxX millimetres
MaxX == 6

MissionSamples ==
    { Point(5 * i, y, z, 1, r, g) :
        i \in 0..MaxX, y \in {0, 4}, z \in {0, 3}, r \in {0, 10},
        g \in {50, 300} }

InitCart ==
    /\ prog = "smooth_mission"
    /\ args \in [p1 : MissionSamples, p2 : MissionSamples,
                 step : {STEP_SIZE_MM, 10}]
    /\ Loaded

CallInterpolatePoints ==
    /\ prog = "smooth_mission"
    /\ pc = "main"
    /\ ret' = interpolate_points(args.p1, args.p2, args.step)
    /\ pc' = "returned"
    /\ UNCHANGED <<prog, fbVars, hostVars, pause, LAST_JOINTS_5DOF, sent, ikLog,
                   ctlVars, args, executed>>

CallInterpolateAndExecute == interpolate_and_execute(args.p1, args.p2)

NextCart == CallInterpolatePoints \/ CallInterpolateAndExecute

SpecCart == InitCart /\ [][NextCart]_vars

(* The gripper clamps on joint states around the floors *)
\* how far below the lower floor and above the upper floor the hand value
\* is sampled (centi-radians)
GripSpan == 3

JointStateSamples ==
    { JointState(b, 50, -40, w, r, h) :
        b \in {0, -7}, w \in {0, 2}, r \in {0, 3},
        h \in (HAND_MIN - GripSpan)..(HAND_MIN_SAFE + GripSpan) }

InitGrip ==
    /\ prog = "gripper"
    /\ args \in JointStateSamples
    /\ Loaded

CallClamps ==
    /\ prog = "gripper"
    /\ pc = "main"
    /\ ret' = [clamp_hand |-> clamp_hand(args),
               clamp_safe |-> clamp_safe(args.hand),
               safe_gripper_angle |-> safe_gripper_angle(args.hand)]
    /\ pc' = "returned"
    /\ UNCHANGED <<prog, fbVars, hostVars, pause, LAST_JOINTS_5DOF, sent, ikLog,
                   ctlVars, args, executed>>

NextGrip == CallClamps

SpecGrip == InitGrip /\ [][NextGrip]_vars

(* The feedback-driven scripts: goto_xyz or refine_to_target runs *)
\* largest --iters tried
MaxIters == 2

\* requested targets (mm): one above zmin, one below
FbTargets == { <<300, 0, 200>>, <<300, 0, 140>> }

InitFb ==
    /\ \/ /\ prog = "goto_xyz"
          /\ args \in [target : FbTargets, refine : BOOLEAN,
                       iters : 0..MaxIters]
       \/ /\ prog = "refine_to_target"
          /\ args \in [target : {<<300, 0, 200>>}, refine : {TRUE},
                       iters : 0..MaxIters]
    /\ Loaded

NextFb ==
    \/ ReadFeedbackLoop
    \/ read_feedback_return
    \/ cmd_goto_xyz
    \/ goto_initial_move
    \/ goto_after_initial
    \/ goto_refine_step
    \/ goto_refine_feedback
    \/ refine_to_target
    \/ refine_move_done
    \/ refine_iteration
    \/ refine_probe
    \/ refine_correct

SpecFb == InitFb /\ [][NextFb]_vars

\* the script is one thread that keeps running until it returns or raises
SpecFbFair == SpecFb /\ WF_vars(NextFb)

-----------------------------------------------------------------------------
(* Properties *)

\* every command sent follows a successful IK call and carries that call's
\* result: a joint command that ends its trajectory carries the solved five
\* joints, a Cartesian command carries the target that was solved
SentFollowsSuccess ==
    \A c \in 1..Len(sent) :
        /\ sent[c].ik \in 1..Len(ikLog)
        /\ ikLog[sent[c].ik].sol # None
        /\ (sent[c].T = 102 /\ sent[c].idx = sent[c].den) =>
               \A i \in 1..5 :
                   sent[c].p[i] = sent[c].den * ikLog[sent[c].ik].sol[i]
        /\ sent[c].T \in {104, 1041} =>
               /\ sent[c].p = ikLog[sent[c].ik].target
               /\ sent[c].den = ikLog[sent[c].ik].den

\* C1: when inverse_kinematics returns None for a target, the caller (move_to,
\* linear_move, calculate_ik_and_stream) sends nothing for it and leaves
\* LAST_JOINTS_5DOF unchanged, and no command is ever sent that does not carry
\* the result of a successful IK call.
C1_NoCommandOnIKFailure ==
    [][ /\ (/\ Len(ikLog') = Len(ikLog) + 1
            /\ ikLog'[Len(ikLog')].sol = None)
           => (sent' = sent /\ LAST_JOINTS_5DOF' = LAST_JOINTS_5DOF)
        /\ SentFollowsSuccess' ]_vars

C1_Witness ==
    /\ Len(ikLog) >= 2
    /\ ikLog[Len(ikLog)].sol = None
    /\ ikLog[Len(ikLog) - 1].sol # None
    /\ Len(sent) >= 1

\* C2: a solution returned by inverse_kinematics has 6 elements, its first
\* five each within [limits_min, limits_max] and its sixth 0; a converged
\* solve whose x is out of range still returns a solution (no error).
C2_SolutionClamped ==
    pc = "returned" =>
        /\ args.success => ret # None
        /\ ret # None =>
               /\ Len(ret) = 6
               /\ \A i \in 1..5 :
                      limits_min[i] <= ret[i] /\ ret[i] <= limits_max[i]
               /\ ret[6] = 0

C2_Witness ==
    /\ pc = "returned"
    /\ args.success
    /\ args.x[3] < limits_min[3]
    /\ args.x[2] > limits_max[2]
    /\ ret[3] = limits_min[3]
    /\ ret[2] = limits_max[2]

\* C3: LAST_JOINTS_5DOF is the first five joints of the solution of the most
\* recent successful IK call (the default pose [0, 0.5, 0.5, 0, 0] when none
\* has succeeded), and every IK call was handed the warm-start value current
\* at that moment as its initial guess.
C3_WarmStartIsLastSolution ==
    LET ok == { i \in 1..Len(ikLog) : ikLog[i].sol # None }
        last == CHOOSE i \in ok : \A m \in ok : m <= i
    IN  /\ LAST_JOINTS_5DOF =
               IF ok = {} THEN <<0, 50, 50, 0, 0>>
               ELSE SubSeq(ikLog[last].sol, 1, 5)
        /\ \A i \in 1..Len(ikLog) : ikLog[i].guess = ikLog[i].warm
        /\ \A i \in 1..Len(ikLog) :
               ikLog[i].guess =
                   IF \E m \in ok : m < i
                   THEN SubSeq(ikLog[CHOOSE m \in ok :
                                   m < i /\ \A q \in ok : q < i => q <= m].sol,
                               1, 5)
                   ELSE <<0, 50, 50, 0, 0>>

C3_Witness ==
    /\ Len(ikLog) >= 3
    /\ ikLog[1].sol # None
    /\ ikLog[2].sol # None
    /\ ikLog[3].sol = None
    /\ SubSeq(ikLog[1].sol, 1, 5) # SubSeq(ikLog[2].sol, 1, 5)
    /\ LAST_JOINTS_5DOF = SubSeq(ikLog[2].sol, 1, 5)

\* C4: interpolate_points returns max(1, floor(dist/step)) waypoints, the
\* i-th at fraction i/steps of the line from p1 to p2 (the last at p2's
\* x, y, z; one waypoint for zero distance), each with p2's roll and p1's
\* gripper; (0,0,0) -> (30,0,0) with step 10 gives 3 waypoints, x = 10, 20, 30.
C4_CartesianWaypoints ==
    pc = "returned" =>
        LET p1 == args.p1
            p2 == args.p2
            n == Len(ret)
            d2 == Dist2(p1, p2)
            s2 == args.step * args.step
        IN  /\ n >= 1
            /\ IF d2 < s2 THEN n = 1
               ELSE n * n * s2 <= d2 /\ d2 < (n + 1) * (n + 1) * s2
            /\ d2 = 0 => n = 1
            /\ \A i \in 1..n :
                   /\ ret[i].den = n
                   /\ n * (ret[i].x - n * p1.x) = i * (n * p2.x - n * p1.x)
                   /\ n * (ret[i].y - n * p1.y) = i * (n * p2.y - n * p1.y)
                   /\ n * (ret[i].z - n * p1.z) = i * (n * p2.z - n * p1.z)
                   /\ ret[i].r = p2.r
                   /\ ret[i].g = p1.g
            /\ ret[n].x = n * p2.x /\ ret[n].y = n * p2.y /\ ret[n].z = n * p2.z
            /\ (/\ p1.x = 0 /\ p1.y = 0 /\ p1.z = 0
                /\ p2.x = 30 /\ p2.y = 0 /\ p2.z = 0
                /\ args.step = 10)
               => /\ n = 3
                  /\ \A i \in 1..3 : ret[i].x = 10 * i * ret[i].den

C4_Witness ==
    /\ pc = "returned"
    /\ args.p1.x = 0 /\ args.p1.y = 0 /\ args.p1.z = 0
    /\ args.p2.x = 30 /\ args.p2.y = 0 /\ args.p2.z = 0
    /\ args.step = 10
    /\ args.p1.g # args.p2.g
    /\ args.p1.r # args.p2.r
    /\ Len(ret) = 3

\* C5 (as claimed): consecutive waypoints of interpolate_points, and p1 and the
\* first waypoint, are never farther apart than the step size.
C5_SpacingWithinStep ==
    pc = "returned" =>
        \A i \in 1..Len(ret) :
            LET a == IF i = 1
                     THEN Point(args.p1.x * ret[i].den, args.p1.y * ret[i].den,
                                args.p1.z * ret[i].den, ret[i].den, 0, 0)
                     ELSE ret[i - 1]
            IN  Dist2(a, ret[i])
                    <= args.step * args.step * ret[i].den * ret[i].den

\* C6: interpolate_joints returns floor(max_i |j2_i - j1_i| / step) + 1
\* waypoints, the k-th equal to j1 + (k/steps)(j2 - j1) in every component, so
\* the last is j2 and a zero delta gives one waypoint; a 0.5 rad elbow move
\* with step 0.05 gives 11.
C6_JointWaypoints ==
    pc = "returned" =>
        LET a == args.j1
            b == args.j2
            n == Len(ret)
            m == MaxAbsDiff(a, b)
        IN  /\ n >= 1
            /\ (n - 1) * args.step <= m /\ m < n * args.step
            /\ a = b => n = 1
            /\ \A i \in 1..n :
                   /\ ret[i].den = n
                   /\ Len(ret[i].num) = 6
                   /\ \A c \in 1..6 :
                          ret[i].num[c] - n * a[c] = i * (b[c] - a[c])
            /\ \A c \in 1..6 : ret[n].num[c] = n * b[c]
            /\ (a = <<0, 0, 0, 0, 0, 0>> /\ b = <<0, 0, 50, 0, 0, 0>>
                /\ args.step = 5) => n = 11

C6_Witness ==
    /\ pc = "returned"
    /\ args.j1 = <<0, 0, 0, 0, 0, 0>>
    /\ args.j2 = <<0, 0, 50, 0, 0, 0>>
    /\ args.step = 5
    /\ Len(ret) = 11

\* C7: between consecutive waypoints of interpolate_joints, and between j1 and
\* the first waypoint, no joint changes by more than the step size.
C7_JointStepBound ==
    pc = "returned" =>
        \A i \in 1..Len(ret) : \A c \in 1..6 :
            LET before == IF i = 1 THEN args.j1[c] * ret[i].den
                          ELSE ret[i - 1].num[c]
            IN  /\ ret[i].den >= 1
                /\ Abs(ret[i].num[c] - before) <= args.step * ret[i].den

C7_Witness ==
    /\ pc = "returned"
    /\ Len(ret) = 3
    /\ args.step = 5
    /\ MaxAbsDiff(args.j1, args.j2) = 13

\* C8: for a segment whose ends share x, y, z and differ in gripper value,
\* interpolate_and_execute makes exactly one execute_move call, with the
\* destination point and the destination's gripper value.
C8_GripperOnlySegment ==
    (/\ pc = "executed"
     /\ args.p1.x = args.p2.x /\ args.p1.y = args.p2.y /\ args.p1.z = args.p2.z
     /\ args.p1.g # args.p2.g)
    => /\ Len(executed) = 1
       /\ executed[1] = args.p2
       /\ executed[1].g = args.p2.g

C8_Witness ==
    /\ pc = "executed"
    /\ args.p1.x = args.p2.x /\ args.p1.y = args.p2.y /\ args.p1.z = args.p2.z
    /\ args.p1.g = 50 /\ args.p2.g = 300
    /\ args.p1.r # args.p2.r
    /\ Len(executed) = 1

\* the IK calls linear_move has made in its current call start at the start
\* point and, once the loop is through, end at the end point
LinearTargets ==
    prog = "path_planner" =>
        /\ pc = "loop" => lm.steps >= 2
        /\ \A e \in 1..Len(ikLog) :
               ikLog[e].traj = lm.call /\ lm.call >= 1 =>
                   /\ lm.steps >= 2
                   /\ ikLog[e].den = lm.steps - 1
                   /\ ikLog[e].idx = 1 =>
                          \A c \in 1..3 :
                              ikLog[e].target[c] = ikLog[e].den * lm.start[c]
                   /\ ikLog[e].idx = lm.steps =>
                          \A c \in 1..3 :
                              ikLog[e].target[c] = ikLog[e].den * lm.end[c]
        /\ (pc = "ready" /\ lm.call >= 1 /\ lm.steps >= 2) =>
               /\ \E e \in 1..Len(ikLog) :
                      ikLog[e].traj = lm.call /\ ikLog[e].idx = 1
               /\ \E e \in 1..Len(ikLog) :
                      ikLog[e].traj = lm.call /\ ikLog[e].idx = lm.steps

\* C9: linear_move called with steps < 2 returns at once: no IK call, no
\* command, LAST_JOINTS_5DOF unchanged; with steps >= 2 its first target is
\* the start point and its last target the end point.
C9_LinearMoveSteps ==
    [][ /\ (lm'.call = lm.call + 1 /\ lm'.steps < 2)
           => /\ ikLog' = ikLog
              /\ sent' = sent
              /\ LAST_JOINTS_5DOF' = LAST_JOINTS_5DOF
              /\ pc' = "ready"
        /\ LinearTargets' ]_vars

C9_Witness ==
    /\ prog = "path_planner"
    /\ lm.call = 2
    /\ lm.steps = 1
    /\ pc = "ready"
    /\ Len(ikLog) = 1
    /\ Len(sent) = 1

\* position (trajectory, waypoint) of a sent command precedes another's
Precedes(a, b) ==
    \/ a.traj < b.traj
    \/ a.traj = b.traj /\ a.idx < b.idx

\* C10: commands are sent one at a time in planner order: each waypoint at
\* most once, the waypoints of a trajectory in increasing position, every
\* command of a segment before any command of the next, and each streamed
\* command is the planner's waypoint at its position.
C10_EmissionOrder ==
    [][ /\ Len(sent') <= Len(sent) + 1
        /\ \A c \in 1..(Len(sent') - 1) : Precedes(sent'[c], sent'[c + 1])
        /\ \A c \in 1..Len(sent') :
               (prog' = "smooth_stream_direct" /\ sent'[c].traj = seg') =>
                   /\ sent'[c].idx \in 1..Len(microsteps')
                   /\ sent'[c].p = microsteps'[sent'[c].idx].num
        /\ (prog' = "smooth_stream_direct" /\ pc' = "mission"
            /\ Len(sent') > 0 /\ sent'[Len(sent')].traj = seg')
           => \A i \in 1..Len(microsteps') :
                  \E c \in 1..Len(sent') :
                      sent'[c].traj = seg' /\ sent'[c].idx = i ]_vars

C10_Witness ==
    /\ prog = "smooth_stream_direct"
    /\ seg = 2
    /\ pc = "mission"
    /\ \E c \in 1..Len(sent) : sent[c].traj = 1 /\ sent[c].idx >= 2
    /\ \E c \in 1..Len(sent) : sent[c].traj = 2 /\ sent[c].idx >= 2

\* the pacing delay of the running streamer (ms)
PacingDelay == IF prog = "path_planner" THEN LINEAR_DELAY ELSE STREAM_DELAY

\* C11: between any two consecutive streamed commands, the last command of
\* one trajectory segment and the first of the next included, a pause of at
\* least the streamer's delay is taken: whenever a streamer writes a command
\* after an earlier one, it has slept at least its delay since that write.
C11_PacedStreaming ==
    [][ (/\ prog \in {"path_planner", "smooth_stream_direct"}
         /\ Len(sent') > Len(sent)
         /\ Len(sent) > 0)
        => pause >= PacingDelay ]_vars

\* the first command of the second segment has just followed the last command
\* of the first one
C11_Witness ==
    /\ prog = "smooth_stream_direct"
    /\ Len(sent) >= 2
    /\ sent[Len(sent) - 1].traj = 1
    /\ sent[Len(sent)].traj = 2
    /\ pause = STREAM_DELAY

\* the hand field of a sent T=102 command is p[6] / den
HandAtLeast(c, floor) == c.p[6] >= floor * c.den

\* C12: every command sent to the device carries a gripper (hand) value at or
\* above the stall floor HAND_MIN, whatever gripper value the caller or the
\* mission supplies.
C12_HandAtOrAboveFloor ==
    \A c \in 1..Len(sent) : sent[c].T = 102 => HandAtLeast(sent[c], HAND_MIN)

\* max(g, floor), what a clamp to a floor must return
Raised(g, floor) == IF g >= floor THEN g ELSE floor

\* C13: the gripper clamps clamp_hand, clamp_safe and safe_gripper_angle
\* return a value at or above their floor unchanged and a value below it as
\* exactly the floor, clamping twice equals clamping once, and clamp_hand
\* leaves the other five joint fields unchanged.
C13_ClampsIdempotent ==
    (prog = "gripper" /\ pc = "returned") =>
        /\ ret.clamp_hand.hand = Raised(args.hand, HAND_MIN)
        /\ ret.clamp_hand = [args EXCEPT !.hand = ret.clamp_hand.hand]
        /\ clamp_hand(ret.clamp_hand) = ret.clamp_hand
        /\ ret.clamp_safe = Raised(args.hand, HAND_MIN_SAFE)
        /\ clamp_safe(ret.clamp_safe) = ret.clamp_safe
        /\ ret.safe_gripper_angle = Raised(args.hand, GRIPPER_MIN)
        /\ safe_gripper_angle(ret.safe_gripper_angle) = ret.safe_gripper_angle

\* a joint state just below HAND_MIN, with non-zero other fields, was clamped
C13_Witness ==
    /\ prog = "gripper"
    /\ pc = "returned"
    /\ args.hand = HAND_MIN - 1
    /\ args.base # 0 /\ args.roll # 0
    /\ ret.clamp_hand.hand = HAND_MIN
    /\ ret.clamp_safe = HAND_MIN_SAFE

\* the five arm joints of a streamed command lie within ik.py's limits
ArmJointsWithinLimits(c) ==
    \A i \in 1..JOINTS_USED :
        /\ limits_min[i] * c.den <= c.p[i]
        /\ c.p[i] <= limits_max[i] * c.den

\* every streamed vector has six elements and its arm joints within limits
StreamedArmJointsInRange ==
    prog = "smooth_stream_direct" =>
        \A c \in 1..Len(sent) :
            Len(sent[c].p) = 6 /\ ArmJointsWithinLimits(sent[c])

\* C14: every joint vector the streaming engine sends, each interpolated
\* microstep included, has length 6 and each element within its joint's
\* configured range: ik.py's limits for the five arm joints and the stall
\* floor for the hand.
C14_StreamedWithinRange ==
    prog = "smooth_stream_direct" =>
        \A c \in 1..Len(sent) :
            /\ Len(sent[c].p) = 6
            /\ ArmJointsWithinLimits(sent[c])
            /\ HandAtLeast(sent[c], HAND_MIN)

\* C15: move_to never emits a joint command for a target whose z is below the
\* configured minimum: every command it has sent was solved for a target
\* with z >= LOW_Z.
C15_NoSendBelowMinZ ==
    prog = "roarm_control" =>
        \A c \in 1..Len(sent) : ikLog[sent[c].ik].target[3] >= LOW_Z

\* C16: in goto_xyz a requested target with z below zmin is rejected before
\* the serial port is opened or anything is sent, and every target handed to
\* ik_xyz, the refine steps included, has z >= zmin.
C16_GotoRespectsZmin ==
    prog = "goto_xyz" =>
        /\ args.target[3] < ZMIN =>
               (~obs.opened /\ sent = <<>> /\ ikLog = <<>>)
        /\ \A n \in 1..Len(ikLog) :
               ikLog[n].target[3] >= ZMIN * ikLog[n].den

\* a refine step that would have gone below zmin was clipped and sent
C16_Witness ==
    /\ prog = "goto_xyz"
    /\ Len(ikLog) >= 2
    /\ fb.z < ZMIN
    /\ GAIN_DEN * fb.z + GAIN * (args.target[3] - fb.z) < ZMIN * GAIN_DEN
    /\ ikLog[Len(ikLog)].target[3] = ZMIN * GAIN_DEN
    /\ \E c \in 1..Len(sent) : sent[c].T = 102 /\ sent[c].ik = Len(ikLog)

\* this step writes no T=102 command
NoMotionSent ==
    /\ Len(sent') >= Len(sent)
    /\ \A c \in (Len(sent) + 1)..Len(sent') : sent'[c].T # 102

\* refine_to_target's guard: when the reply held in fb at the head of a loop
\* pass is outside the safety box, the pass sends nothing and returns
RefineAbortsOnUnsafeStart ==
    [][ (/\ prog = "refine_to_target"
         /\ pc = "iter"
         /\ ~safe_ok(fb.x, fb.z, ZMIN, XMIN, XMAX))
        => (sent' = sent /\ pc' = "returned") ]_vars

\* C17: once any feedback sample received during a refine pass shows a pose
\* outside the safety box (z < zmin, or x outside [xmin, xmax]),
\* refine_to_target sends no further motion command.
C17_NoMotionAfterUnsafeSample ==
    [][ (prog = "refine_to_target" /\ obs.unsafeSeen) => NoMotionSent ]_vars

\* the number of T=102 commands written so far
MotionCount == Cardinality({ c \in 1..Len(sent) : sent[c].T = 102 })

\* C18: refine_to_target terminates within the iteration budget: it starts
\* at most `iters` loop passes and sends at most 1 + 5 * iters motion
\* commands, sends nothing more once the feedback at the head of a pass is
\* within tolerance, returns normally with its joint estimate and the last
\* feedback when the budget is exhausted, and always ends by returning or
\* raising.
C18_RefineWithinBudget ==
    /\ [][ prog = "refine_to_target" =>
              /\ rf'.i <= args.iters
              /\ MotionCount' <= 1 + 5 * args.iters
              /\ (pc = "iter" /\ Err2(args.target, fb) <= TOL * TOL)
                     => (sent' = sent /\ pc' = "returned")
              /\ (pc = "iter" /\ rf.i = args.iters)
                     => /\ sent' = sent
                        /\ pc' = "returned"
                        /\ ret' = [rev |-> rf.rev, fb |-> fb] ]_vars
    /\ <>(prog = "refine_to_target" => pc \in {"returned", "raised"})

\* the budget was used up without convergence and the function returned
C18_Witness ==
    /\ prog = "refine_to_target"
    /\ pc = "returned"
    /\ args.iters >= 2
    /\ rf.i = args.iters
    /\ MotionCount = 1 + 5 * args.iters
    /\ Err2(args.target, fb) > TOL * TOL
    /\ ret = [rev |-> args.iters, fb |-> fb]

\* the number of T=105 requests written so far
RequestCount == Cardinality({ c \in 1..Len(sent) : sent[c].T = 105 })

\* a feedback request writes exactly one T=105 and nothing is written while
\* it waits
OneRequestPerRead ==
    /\ (pc # "read" /\ pc' = "read") =>
           /\ RequestCount' = RequestCount + 1
           /\ sent'[Len(sent')].T = 105
    /\ pc = "read" => sent' = sent

\* once a read made after a motion command has returned None, nothing more
\* is written: refine_to_target raises and goto_xyz leaves its loop
StopsOnNoFeedback ==
    obs.noFb =>
        /\ sent' = sent
        /\ pc' = IF prog = "refine_to_target" THEN "raised" ELSE "done"

\* one T=105 per request, no retry, and the refiner stops on "no feedback"
FeedbackNoRetryAndStop == [][OneRequestPerRead /\ StopsOnNoFeedback]_vars

\* C19: each feedback request sends exactly one T=105 message and waits at
\* most its configured window; when no T=1051 reply arrives the read returns
\* None without retrying and the refiner stops without sending any further
\* motion command (refine_to_target raises, goto_xyz's refine loop breaks).
C19_BoundedFeedbackWait ==
    [][ /\ OneRequestPerRead
        /\ StopsOnNoFeedback
        /\ (pc = "read" /\ pc' # "read") => rd.elapsed <= FEEDBACK_WINDOW
      ]_vars

\* read_feedback never holds anything but None or a T=1051 reply: lines
\* that are empty, do not start with "{", do not parse, or carry another T
\* leave `last` alone
ReadKeepsOnlyReplies ==
    /\ rd.last = NoFeedback \/ rd.last \in FeedbackSamples
    /\ rd.inWindow # NoFeedback => rd.last # NoFeedback

\* C20: malformed, non-JSON and non-T=1051 lines are never returned by
\* read_feedback; its result is None exactly when no valid T=1051 reply
\* arrived within the window, and otherwise is the last valid T=1051 reply
\* that arrived within the window.
C20_LastReplyInWindow ==
    pc # "read" =>
        /\ rd.last = NoFeedback \/ rd.last \in FeedbackSamples
        /\ rd.last = rd.inWindow

(* Claim C21: a user stop (the quit key or Ctrl+C) during a streamed motion
   falls between two command sends and leaves the arm torque-enabled: no
   torque-disable command is emitted on the stop path, neither a T=210 with
   cmd 0 on the serial port nor a torque_off run of the control script. *)
TorqueDisableEmitted ==
    \/ \E c \in 1..Len(sent) : sent[c].T = 210 /\ sent[c].p = <<0>>
    \/ \E r \in 1..Len(runs) : runs[r].argv = <<"torque_off">>

\* the part that holds: the tracker's stop writes nothing at all
TrackerStopHoldsTorque ==
    (prog = "trackobject_auto" /\ obs.stopped) => ~TorqueDisableEmitted

C21_StopLeavesTorqueOn ==
    (/\ obs.stopped
     /\ pc = "done"
     /\ \E c \in 1..Len(sent) : sent[c].T \in {102, 1041})
        => ~TorqueDisableEmitted

(* Claim C22: a serial open or write failure while linear_move emits
   waypoint i is fatal for that move: no later waypoint of the same
   trajectory is sent, and linear_move ends by raising to its caller. *)
C22_SendFailureIsFatal ==
    \A f \in 1..Len(failed) :
        /\ \A c \in 1..Len(sent) :
               sent[c].traj = failed[f].traj => sent[c].idx < failed[f].idx
        /\ pc = "raised"

(* Claim C23: when a control command fails during a mission (non-zero exit,
   timeout or reported error), the mission controller issues no further
   move, sends no torque-disable, and exits with failure. *)
\* run_control_command treats the run as failed
FailedRun(r) ==
    \/ r.out \in {"timeout", "not_found", "crash", "error_text"}
    \/ r.check /\ r.out \in {"usage", "nonzero"}

\* the parts that hold: no move follows a failed run, and the controller
\* never reaches its normal end after one
NoMoveAfterFailure ==
    /\ \A f \in 1..Len(runs), r \in 1..Len(runs) :
           (FailedRun(runs[f]) /\ r > f) => runs[r].argv[1] # "move"
    /\ pc = "done" => \A f \in 1..Len(runs) : ~FailedRun(runs[f])

C23_FailureHoldsTorque ==
    /\ NoMoveAfterFailure
    /\ \A f \in 1..Len(runs), r \in 1..Len(runs) :
           (FailedRun(runs[f]) /\ r > f) => runs[r].argv[1] # "torque_off"

(* Claim C29: run_control_command's failure path is bounded: after a failed
   command it makes at most one torque_off attempt (the handlers' calls are
   the runs with check=False) and then exits, also when that attempt times
   out or reports an error. *)
C29_OneTorqueOffAttempt ==
    Cardinality({ r \in 1..Len(runs) : ~runs[r].check }) <= 1

(* Claim C30: for a mission whose waypoints all have x, y and z,
   execute_mission run against roarm_control.py's own command line enables
   torque first, eventually has one accepted move per waypoint in list
   order, and disables torque only after the last one. *)
\* every run so far ended the way roarm_control.py's main ends it
ControlCLIOnly ==
    \A r \in 1..Len(runs) : runs[r].out = roarm_control_main(runs[r].argv)

MissionCompleted ==
    LET n == Len(args.waypoints)
    IN  /\ pc = "done"
        /\ Len(runs) = n + 2
        /\ runs[1].argv[1] = "torque_on" /\ runs[1].out = "ok"
        /\ \A i \in 1..n :
               /\ runs[i + 1].argv[1] = "move"
               /\ runs[i + 1].argv[2] = args.waypoints[i].xyz[1]
               /\ runs[i + 1].argv[3] = args.waypoints[i].xyz[2]
               /\ runs[i + 1].argv[4] = args.waypoints[i].xyz[3]
               /\ runs[i + 1].out = "ok"
        /\ runs[n + 2].argv[1] = "torque_off"

C30_MissionAgainstControlCLI ==
    (\A i \in 1..Len(args.waypoints) : args.waypoints[i].complete)
        => <>(~ControlCLIOnly \/ MissionCompleted)

(* Claim C24: the IK entry point returns failure, not a joint vector, for
   every target whose distance from the shoulder exceeds the sum of the two
   main link lengths. *)
\* the target lies beyond L1 + L2 from the planar model's shoulder origin
BeyondPlanarReach ==
    CosENum(KDen * args.target[1] - KDen * args.calib.X0,
            KDen * args.target[2] - KDen * args.calib.Z0, args.calib)
        > CosEDen(args.calib)

\* the target lies beyond L2 + L3 from archive/ik.py's shoulder pivot
BeyondArchiveReach ==
    args.target[1] * args.target[1]
    + (args.target[2] - ARCHIVE_L1) * (args.target[2] - ARCHIVE_L1)
        > (ARCHIVE_L2 + ARCHIVE_L3) * (ARCHIVE_L2 + ARCHIVE_L3)

\* the part that holds: the test harness's ik_planar rejects them (it
\* measures from the uncorrected origin, so the offsets are left out)
IKPlanarRejectsUnreachable ==
    (/\ prog = "ik_xyz"
     /\ pc = "returned"
     /\ CosENum(KDen * args.target[1], KDen * args.target[2], args.calib)
            > CosEDen(args.calib))
        => ~ret.ik_planar.ok

C24_UnreachableRejected ==
    (prog = "ik_xyz" /\ pc = "returned")
        => /\ BeyondPlanarReach => ~ret.ik_xyz.ok
           /\ BeyondArchiveReach => ~ret.archive.ok

(* Claim C25: FK/IK round trip: for every joint vector within the sampled
   limits for which IK reports success, FK, then IK on that position, then
   FK again gives the original position within the tolerance, 1 mm (KDen
   in the model's units). *)
\* the part that holds: through roarm_simple_move's ik_xyz, which subtracts
\* X0 and Z0, the round trip is exact
SimpleMoveRoundTrip ==
    (prog = "test_fk_ik_consistency" /\ pc = "returned")
        => /\ ~ret.simple_clamped
           /\ PosErr2(ret.p0, ret.simple_p1) = 0

C25_RoundTripWithinTolerance ==
    (prog = "test_fk_ik_consistency" /\ pc = "returned" /\ ret.ok)
        => PosErr2(ret.p0, ret.p1) <= KDen * KDen

(* Claim C26: when the estimated 2x2 Jacobian is singular (for instance all
   four probes returned the same feedback), refine_to_target applies no
   correction: it returns the joint estimate it had before the probes and
   sends no command after the last probe. *)
C26_SingularJacobianStops ==
    [][/\ (/\ prog = "refine_to_target"
           /\ pc = "p4"
           /\ rd.last # NoFeedback
           /\ DetNum(rf.fb_sp, rf.fb_sm, rf.fb_ep, rd.last) = 0)
          => /\ pc' = "returned"
             /\ sent' = sent
             /\ ret'.rev = rf.rev
       /\ (prog = "refine_to_target" /\ pc = "returned") => sent' = sent]_vars

\* the last T=102 command written
LastMotion ==
    LET idx == { c \in 1..Len(sent) : sent[c].T = 102 }
    IN  sent[CHOOSE c \in idx : \A d \in idx : d <= c]

\* refine_to_target has returned right after the fourth probe, with all
\* four probe replies equal
C26_Witness ==
    /\ prog = "refine_to_target"
    /\ pc = "returned"
    /\ LastMotion.del = -PROBE
    /\ rf.fb_sp = rf.fb_sm /\ rf.fb_sm = rf.fb_ep /\ rf.fb_ep = rd.last

(* Claim C27: whenever refine_to_target returns, the joint triple it
   returns is the one most recently commanded to the device, so the arm is
   left holding the returned, non-probe pose. *)
\* the part that holds: the returned triple is the estimate the last
\* command was built from
ReturnedIsLatestEstimate ==
    (prog = "refine_to_target" /\ pc = "returned")
        => LastMotion.rev = ret.rev

C27_ReturnedPoseIsLastCommanded ==
    (prog = "refine_to_target" /\ pc = "returned")
        => /\ LastMotion.rev = ret.rev
           /\ LastMotion.dsh = 0
           /\ LastMotion.del = 0

(* Claim C28: guarded_move aborts at the first step whose feedback lies in
   the forbidden region: none of the remaining steps is sent, exactly one
   retreat command (shoulder 0, elbow 0 at the measured base) is sent, and
   (False, fb) is returned; on missing feedback it returns (False, None)
   with nothing further sent; it returns (True, fb) only if the feedback
   after every one of the `steps` commands was inside the box. *)
\* the interpolated steps go out at the caller's spd, the retreat at 0.6
StepCommands ==
    { c \in 1..Len(sent) : sent[c].T = 102 /\ sent[c].spd = args.spd }
Retreats ==
    { c \in 1..Len(sent) : sent[c].T = 102 /\ sent[c].spd = RETREAT_SPD }

C28_GuardedMoveAborts ==
    [][/\ (prog = "guarded_move" /\ pc = "returned") => sent' = sent
       /\ (prog = "guarded_move" /\ pc' = "returned" /\ pc # "returned")
          => LET n == Len(gm'.seen)
                 last == sent'[Len(sent')]
             IN  /\ \A i \in 1..(n - 1) : ~Forbidden(gm'.seen[i])
                 /\ ret'.ok
                    => /\ n = args.steps
                       /\ ~Forbidden(gm'.seen[n])
                       /\ ret'.fb = gm'.seen[n]
                       /\ Retreats' = {}
                       /\ Cardinality(StepCommands') = args.steps
                 /\ (~ret'.ok /\ ret'.fb # NoJointFeedback)
                    => /\ n >= 1
                       /\ ret'.fb = gm'.seen[n]
                       /\ Forbidden(ret'.fb)
                       /\ Cardinality(StepCommands') = n
                       /\ Retreats' = {Len(sent')}
                       /\ last.p = <<ret'.fb.b, 0, 0>>
                 /\ (~ret'.ok /\ ret'.fb = NoJointFeedback)
                    => /\ Retreats' = {}
                       /\ last.T = 105
                       /\ Cardinality(StepCommands') = n + 1
                          \/ (n = 0 /\ StepCommands' = {})]_vars

\* an abort on the second step: one good step, then a reply below zmin,
\* then the retreat
C28_Witness ==
    /\ prog = "guarded_move"
    /\ pc = "returned"
    /\ ~ret.ok
    /\ ret.fb # NoJointFeedback
    /\ Len(gm.seen) = 2
    /\ args.steps > 2
    /\ Cardinality(Retreats) = 1

====
